---- MODULE Spec2Model ----
(***************************************************************************)
(* State-machine model of src/src/App.jsx: the tier-list drag-and-drop     *)
(* engine (TierListView.handleDrop, App.handleSaveTierList, App.saveData,  *)
(* the tierlists snapshot listener, App.cookieTiersMap), the tier editor   *)
(* (TierEditorModal), the unranked panel, the derived view pipeline of the  *)
(* cookie list (filteredCookies, sortedCookies, groupedCookies), the modal *)
(* stack, the confirm dialog with the deletions it guards (handleDelete,   *)
(* handleDeleteCostume, handleDeleteAttribute), CookieForm with            *)
(* handleSaveCookie, and AttributeManager with handleSaveAttribute.        *)
(***************************************************************************)
EXTENDS Integers, Sequences, FiniteSets, TLC

VARIABLES
    tierLists,        \* App state: {pvp, pve}, the local mirror of the two lists
    tierlistDocs,     \* the remote collection "tierlists": document id -> document
    pendingWrites,    \* setDoc calls issued by saveData and not yet settled
    cookieTiersMap,   \* App.cookieTiersMap, the memo recomputed when tierLists is set
    activeTab,        \* TierListView state
    draggedCookieId,  \* TierListView state
    unrankedSearch,   \* TierListView state
    lastDrop,         \* history: the drop handled by the last step, if it was one
    seedTiers,        \* the tier objects of the module-level defaultTiers array, as they are now
    tierEditor,       \* TierEditorModal: its props and state while it is open
    clock,            \* the reading of Date.now()
    cookies,          \* App state: the local mirror of the cookies collection
    rarities,         \* App state: attributes.rarities
    searchTerm,       \* App state
    sort,             \* App state: {option, direction}
    modalStack,       \* App state: the open modals, the shown one last
    confirmAction,    \* App state: the action that awaits its confirmation, with what its closure holds
    deleting,         \* the confirmed action that runs: the calls it has still to make
    lastAnswer,       \* history: the answer the last step gave to the confirm dialog, if it gave one
    cookieDocs,       \* the remote collection "cookies", in the order of a query
    powerUpDocs,      \* the remote collection "powerups", in the order of a query
    powerUps,         \* App state: the local mirror of the powerups collection
    registryDocs,     \* the remote collection "rarities", in the order of a query
    cookieForm,       \* CookieForm: its state while it is mounted
    attrForm,         \* AttributeManager: formData, editingId, isSaving
    serverTime        \* the time the store gives to the next serverTimestamp()

tierVars == <<tierLists, tierlistDocs, pendingWrites, cookieTiersMap, activeTab,
              draggedCookieId, unrankedSearch, lastDrop>>
editorVars == <<seedTiers, tierEditor, clock>>
viewVars == <<cookies, rarities, searchTerm, sort>>
crudVars == <<confirmAction, deleting, lastAnswer, cookieDocs, powerUpDocs, powerUps,
              registryDocs, cookieForm, attrForm, serverTime>>
appVars == <<modalStack, confirmAction, deleting, lastAnswer, cookieDocs, powerUpDocs,
             powerUps, registryDocs, cookieForm, attrForm, serverTime>>
vars == <<tierLists, tierlistDocs, pendingWrites, cookieTiersMap, activeTab,
          draggedCookieId, unrankedSearch, lastDrop, seedTiers, tierEditor, clock,
          cookies, rarities, searchTerm, sort, modalStack, confirmAction, deleting,
          lastAnswer, cookieDocs, powerUpDocs, powerUps, registryDocs, cookieForm, attrForm,
          serverTime>>

----------------------------------------------------------------------------
(* Values                                                                   *)

\* null / undefined
Null == "<null>"
\* a key that a JavaScript object does not have
NoEntry == "<absent>"
\* a document that the collection does not hold
NoDoc == [exists |-> FALSE]

\* writes in flight at one time
MaxPending == 1

\* cookie document ids that can be dragged
CookieIds == {"c1", "c2", "c3"}

ListKinds == {"pvp", "pve"}

defaultTiers ==
    << [id |-> "S", name |-> "S", color |-> "bg-red-500",    cookieIds |-> <<>>],
       [id |-> "A", name |-> "A", color |-> "bg-orange-500", cookieIds |-> <<>>],
       [id |-> "B", name |-> "B", color |-> "bg-yellow-500", cookieIds |-> <<>>],
       [id |-> "C", name |-> "C", color |-> "bg-green-500",  cookieIds |-> <<>>] >>

defaultPvpTierList == [id |-> "pvp-tier-list", name |-> "PvP Tier List", tiers |-> defaultTiers]
defaultPveTierList == [id |-> "pve-tier-list", name |-> "PvE Tier List", tiers |-> defaultTiers]

TierListDocIds == {"pvp-tier-list", "pve-tier-list"}

\* the ids the drop handler is called with: tier ids of the rows, the
\* unranked panel, and an id that no tier of the list has
DropTargets == {"S", "A", "unranked", "Z"}

----------------------------------------------------------------------------
(* TierListView.handleDrop: the new tiers                                   *)

\* mutant: the filter keeps every id
FilterOut_KeepAll(ids, cookieId) == ids

\* tier.cookieIds.filter(id => id !== draggedCookieId)
FilterOut(ids, cookieId) == SelectSeq(ids, LAMBDA x : x # cookieId)

\* mutant: a drop on an unknown id falls back to the first tier
FindTier_FallbackFirst(tiers, targetTierId) ==
    IF \E i \in 1..Len(tiers) : tiers[i].id = targetTierId
    THEN CHOOSE i \in 1..Len(tiers) :
            /\ tiers[i].id = targetTierId
            /\ \A j \in 1..(i - 1) : tiers[j].id # targetTierId
    ELSE IF tiers = <<>> THEN 0 ELSE 1

\* newTiers.find(t => t.id === targetTierId): the index of the first match, 0 if none
FindTier(tiers, targetTierId) ==
    IF \E i \in 1..Len(tiers) : tiers[i].id = targetTierId
    THEN CHOOSE i \in 1..Len(tiers) :
            /\ tiers[i].id = targetTierId
            /\ \A j \in 1..(i - 1) : tiers[j].id # targetTierId
    ELSE 0

\* mutant: the filter is forgotten
RemoveFromTiers_Skip(tiers, cookieId) == tiers

\* tiers.map(tier => ({...tier, cookieIds: tier.cookieIds.filter(...)}))
RemoveFromTiers(tiers, cookieId) ==
    [i \in 1..Len(tiers) |-> [tiers[i] EXCEPT !.cookieIds = FilterOut(@, cookieId)]]

\* mutant: unshift instead of push
PushCookie_Front(ids, cookieId) == <<cookieId>> \o ids

\* targetTier.cookieIds.push(draggedCookieId)
PushCookie(ids, cookieId) == Append(ids, cookieId)

\* mutant: the cookie is removed from every tier but the target
MoveCookie_KeepInTarget(tiers, cookieId, targetTierId) ==
    LET k == FindTier(tiers, targetTierId)
        newTiers == [i \in 1..Len(tiers) |->
                        IF i = k THEN tiers[i]
                        ELSE [tiers[i] EXCEPT !.cookieIds = FilterOut(@, cookieId)]]
    IN  IF targetTierId # "unranked" /\ k # 0
        THEN [newTiers EXCEPT ![k].cookieIds = PushCookie(@, cookieId)]
        ELSE newTiers

\* the tiers handleDrop hands to onSave
MoveCookie(tiers, cookieId, targetTierId) ==
    LET newTiers == RemoveFromTiers(tiers, cookieId)
        k == FindTier(newTiers, targetTierId)
    IN  IF targetTierId # "unranked" /\ k # 0
        THEN [newTiers EXCEPT ![k].cookieIds = PushCookie(@, cookieId)]
        ELSE newTiers

----------------------------------------------------------------------------
(* App.cookieTiersMap                                                       *)

EmptyTiersMap == [id \in CookieIds |-> [pvp |-> NoEntry, pve |-> NoEntry]]

\* tier.cookieIds.forEach(id => { ...; map[id][type] = tier.name; })
RECURSIVE ProcessCookieIds(_, _, _, _)
ProcessCookieIds(map, ids, type, name) ==
    IF ids = <<>> THEN map
    ELSE LET id == Head(ids)
             next == IF id \in DOMAIN map
                     THEN [map EXCEPT ![id][type] = name]
                     ELSE map
         IN  ProcessCookieIds(next, Tail(ids), type, name)

\* tierList.tiers.forEach(tier => ...)
RECURSIVE ProcessTiers(_, _, _)
ProcessTiers(map, tiers, type) ==
    IF tiers = <<>> THEN map
    ELSE ProcessTiers(ProcessCookieIds(map, Head(tiers).cookieIds, type, Head(tiers).name),
                      Tail(tiers), type)

processTierList(map, tierList, type) == ProcessTiers(map, tierList.tiers, type)

\* mutant: the PvE entries are read from the PvP list
ComputeCookieTiersMap_SameList(lists) ==
    processTierList(processTierList(EmptyTiersMap, lists.pvp, "pvp"), lists.pvp, "pve")

ComputeCookieTiersMap(lists) ==
    processTierList(processTierList(EmptyTiersMap, lists.pvp, "pvp"), lists.pve, "pve")

----------------------------------------------------------------------------
(* The tierlists collection and its snapshot listener                       *)

\* setDoc(doc(collectionRef, id), data, { merge: true }) with data = {id, name, tiers}
SetDocMerge(docs, id, data) ==
    [docs EXCEPT ![id] = [exists |-> TRUE, id |-> data.id, name |-> data.name,
                          tiersIsArray |-> TRUE, tiers |-> data.tiers]]

\* the document id of a list
DocIdOf(kind) == IF kind = "pvp" THEN "pvp-tier-list" ELSE "pve-tier-list"

\* the list's mirror holds the defaultTiers array itself (the same tier
\* objects as the other list's mirror when that one holds it too): the
\* document is missing, or its tiers field is not an array
UsesDefaultTiers(docs, docId) == ~docs[docId].exists \/ ~docs[docId].tiersIsArray

\* data.find(d => d.id === ...) || default...; if (!Array.isArray(x.tiers)) x.tiers = defaultTiers;
\* seed is what the objects of the defaultTiers array hold at that time
SnapshotList(docs, docId, default, seed) ==
    LET d == docs[docId]
    IN  IF ~d.exists THEN [default EXCEPT !.tiers = seed]
        ELSE [id |-> docId, name |-> d.name,
              tiers |-> IF d.tiersIsArray THEN d.tiers ELSE seed]

OnTierlistsSnapshot(docs, seed) ==
    [pvp |-> SnapshotList(docs, "pvp-tier-list", defaultPvpTierList, seed),
     pve |-> SnapshotList(docs, "pve-tier-list", defaultPveTierList, seed)]

----------------------------------------------------------------------------
(* App.openModal, App.closeModal, App.currentModal                          *)

\* mutant: closeModal removes the oldest entry
SliceOffLast_First(stack) == IF stack = <<>> THEN <<>> ELSE Tail(stack)

\* prev.slice(0, -1)
SliceOffLast(stack) == SubSeq(stack, 1, Len(stack) - 1)

\* [...prev, { type, data }]
PushModal(stack, type, data) == Append(stack, [type |-> type, data |-> data])

\* const currentModal = modalStack[modalStack.length - 1];
\* const { type: modalType, data: modalData } = currentModal || {};
currentModal ==
    IF modalStack = <<>> THEN [type |-> Null, data |-> Null]
    ELSE modalStack[Len(modalStack)]

\* no action awaits a confirmation; no confirmed action runs; the last step
\* gave no answer to the confirm dialog
NoConfirm == [pending |-> FALSE]
NotDeleting == [running |-> FALSE]
NoAnswer == [answer |-> "none"]

\* CookieForm is not mounted
NoCookieForm == [mounted |-> FALSE]

\* AttributeManager: useState({ name: '', imageUrl: '', allowsPowerUp: false }), useState(null), useState(false)
EmptyAttrForm == [name |-> "", allowsPowerUp |-> FALSE, editingId |-> Null, isSaving |-> FALSE]

\* the state of App and of the components it has mounted, after construction
InitUi ==
    /\ modalStack = <<>>
    /\ confirmAction = NoConfirm
    /\ deleting = NotDeleting
    /\ lastAnswer = NoAnswer
    /\ powerUps = <<>>
    /\ cookieForm = NoCookieForm
    /\ attrForm = EmptyAttrForm

\* a store that holds no cookie, no power-up and no rarity
InitEmptyStore ==
    /\ cookieDocs = <<>>
    /\ powerUpDocs = <<>>
    /\ registryDocs = <<>>
    /\ serverTime = 1

----------------------------------------------------------------------------
(* Tier-list actions                                                        *)

NoDrop == [acted |-> FALSE, ignored |-> FALSE]
\* history value of a drop that returned at `if (!draggedCookieId) return`
IgnoredDrop == [acted |-> FALSE, ignored |-> TRUE]

\* no tier editor is on the modal stack
NoEditor == [open |-> FALSE]

\* tier editors are not opened on lists longer than this
MaxTiers == 6
\* Date.now() does not advance beyond this reading
MaxClock == 2

InitTier ==
    /\ tierLists = [pvp |-> defaultPvpTierList, pve |-> defaultPveTierList]
    /\ tierlistDocs = [d \in TierListDocIds |-> NoDoc]
    /\ pendingWrites = <<>>
    /\ cookieTiersMap = ComputeCookieTiersMap(tierLists)
    /\ activeTab = "pvp"
    /\ draggedCookieId = Null
    /\ unrankedSearch = <<>>
    /\ lastDrop = NoDrop
    /\ seedTiers = defaultTiers
    /\ tierEditor = NoEditor
    /\ clock = 1

\* MainContent is a component defined in the body of App: every render of App
\* gives it a new identity, so React unmounts TierListView and mounts it anew
\* with its initial state
RemountTierListView ==
    /\ activeTab' = "pvp"
    /\ draggedCookieId' = Null
    /\ unrankedSearch' = <<>>

\* setActiveTab('pvp') / setActiveTab('pve')
SetActiveTab(tab) ==
    /\ activeTab' = tab
    /\ lastDrop' = NoDrop
    /\ UNCHANGED <<tierLists, tierlistDocs, pendingWrites, cookieTiersMap,
                   draggedCookieId, unrankedSearch>>
    /\ UNCHANGED editorVars
    /\ UNCHANGED viewVars
    /\ UNCHANGED appVars

\* TierListView.handleDragStart
HandleDragStart(cookieId) ==
    /\ draggedCookieId' = cookieId
    /\ lastDrop' = NoDrop
    /\ UNCHANGED <<tierLists, tierlistDocs, pendingWrites, cookieTiersMap, activeTab,
                   unrankedSearch>>
    /\ UNCHANGED editorVars
    /\ UNCHANGED viewVars
    /\ UNCHANGED appVars

\* mutant: every list is saved to the PvP document
SaveTierList_PvpDoc(writes, newList, then) ==
    Append(writes, [collection |-> "tierlists", id |-> "pvp-tier-list", data |-> newList,
                    then |-> then])

\* App.handleSaveTierList -> App.saveData('tierlists', newList, newList.id):
\* the setDoc call that is issued; `then` is what the caller does once the
\* awaited call has settled
SaveTierList(writes, newList, then) ==
    Append(writes, [collection |-> "tierlists", id |-> newList.id, data |-> newList,
                    then |-> then])

\* mutant: the handler does not return when nothing is dragged
HandleDrop_NoReturn(targetTierId) ==
    /\ Len(pendingWrites) < MaxPending
    /\ LET activeTierList == tierLists[activeTab]
           tiers == activeTierList.tiers
           newTiers == MoveCookie(tiers, draggedCookieId, targetTierId)
       IN  /\ pendingWrites' = SaveTierList(pendingWrites,
                                   [activeTierList EXCEPT !.tiers = newTiers], "none")
           /\ lastDrop' = IF draggedCookieId = Null THEN IgnoredDrop
                          ELSE [acted |-> TRUE, ignored |-> FALSE, tab |-> activeTab,
                                cookieId |-> draggedCookieId,
                                targetTierId |-> targetTierId,
                                before |-> tiers, after |-> newTiers]
    /\ draggedCookieId' = Null
    /\ UNCHANGED <<tierLists, tierlistDocs, cookieTiersMap, activeTab, unrankedSearch>>
    /\ UNCHANGED editorVars
    /\ UNCHANGED viewVars
    /\ UNCHANGED appVars

\* TierListView.handleDrop
HandleDrop(targetTierId) ==
    IF draggedCookieId = Null
    THEN /\ lastDrop' = IgnoredDrop
         /\ UNCHANGED <<tierLists, tierlistDocs, pendingWrites, cookieTiersMap,
                        activeTab, draggedCookieId, unrankedSearch>>
         /\ UNCHANGED editorVars
         /\ UNCHANGED viewVars
         /\ UNCHANGED appVars
    ELSE /\ Len(pendingWrites) < MaxPending
         /\ LET activeTierList == tierLists[activeTab]
                tiers == activeTierList.tiers
                newTiers == MoveCookie(tiers, draggedCookieId, targetTierId)
            IN  /\ pendingWrites' = SaveTierList(pendingWrites,
                                        [activeTierList EXCEPT !.tiers = newTiers], "none")
                /\ lastDrop' = [acted |-> TRUE, ignored |-> FALSE, tab |-> activeTab,
                                cookieId |-> draggedCookieId,
                                targetTierId |-> targetTierId,
                                before |-> tiers, after |-> newTiers]
         /\ draggedCookieId' = Null
         /\ UNCHANGED <<tierLists, tierlistDocs, cookieTiersMap, activeTab, unrankedSearch>>
         /\ UNCHANGED editorVars
         /\ UNCHANGED viewVars
         /\ UNCHANGED appVars

\* the tier objects of the editor that belonged to the mirror are no longer
\* those of the mirror once a snapshot has replaced it
DetachFromMirror(editor) ==
    IF ~editor.open THEN editor
    ELSE [editor EXCEPT !.tiers =
            [i \in 1..Len(editor.tiers) |->
                IF editor.tiers[i].src = "mirror"
                THEN [editor.tiers[i] EXCEPT !.src = "own", !.at = 0]
                ELSE editor.tiers[i]]]

\* the tierlists listener: setTierLists({ pvp: pvpData, pve: pveData }); the
\* render that follows recomputes cookieTiersMap
TierlistsListener(docs) ==
    LET lists == OnTierlistsSnapshot(docs, seedTiers)
    IN  /\ tierlistDocs' = docs
        /\ tierLists' = lists
        /\ cookieTiersMap' = ComputeCookieTiersMap(lists)

\* the store settles the oldest write and the tierlists listener runs; a
\* tier editor that awaited the write then closes the top modal
WriteApplied ==
    /\ pendingWrites # <<>>
    /\ Head(pendingWrites).collection = "tierlists"
    /\ Head(pendingWrites).then \in {"none", "closeModal"}
    /\ LET w == Head(pendingWrites)
       IN  /\ TierlistsListener(SetDocMerge(tierlistDocs, w.id, w.data))
           /\ tierEditor' = IF w.then = "closeModal" THEN NoEditor
                            ELSE DetachFromMirror(tierEditor)
           /\ modalStack' = IF w.then = "closeModal" THEN SliceOffLast(modalStack)
                            ELSE modalStack
    /\ pendingWrites' = Tail(pendingWrites)
    /\ RemountTierListView
    /\ lastDrop' = NoDrop
    /\ UNCHANGED <<seedTiers, clock>>
    /\ UNCHANGED viewVars
    /\ UNCHANGED crudVars

\* setDoc rejects: saveData catches, logs and returns null
WriteFailed ==
    /\ pendingWrites # <<>>
    /\ Head(pendingWrites).collection = "tierlists"
    /\ Head(pendingWrites).then \in {"none", "closeModal"}
    /\ pendingWrites' = Tail(pendingWrites)
    /\ lastDrop' = NoDrop
    /\ IF Head(pendingWrites).then = "closeModal"
       THEN /\ tierEditor' = NoEditor
            /\ modalStack' = SliceOffLast(modalStack)
            /\ RemountTierListView
       ELSE UNCHANGED <<tierEditor, modalStack, activeTab, draggedCookieId, unrankedSearch>>
    /\ UNCHANGED <<tierLists, tierlistDocs, cookieTiersMap, seedTiers, clock>>
    /\ UNCHANGED viewVars
    /\ UNCHANGED crudVars

InitViewIdle ==
    /\ cookies = <<>>
    /\ rarities = <<>>
    /\ searchTerm = <<>>
    /\ sort = [option |-> "rarity", direction |-> "asc"]

\* Moves of three cookies on the list the view shows when it is mounted.
InitMove == InitTier /\ InitViewIdle /\ InitUi /\ InitEmptyStore

NextMove ==
    \/ \E c \in CookieIds : HandleDragStart(c)
    \/ \E t \in DropTargets : HandleDrop(t)
    \/ WriteApplied
    \/ WriteFailed

SpecMove == InitMove /\ [][NextMove]_vars

\* Moves of two cookies, for the lookup table.
LookupCookies == {"c1", "c2"}
LookupTargets == {"S", "A", "unranked"}

InitLookup == InitTier /\ InitViewIdle /\ InitUi /\ InitEmptyStore

NextLookup ==
    \/ \E tab \in ListKinds : SetActiveTab(tab)
    \/ \E c \in LookupCookies : HandleDragStart(c)
    \/ \E t \in LookupTargets : HandleDrop(t)
    \/ WriteApplied
    \/ WriteFailed

SpecLookup == InitLookup /\ [][NextLookup]_vars

----------------------------------------------------------------------------
(* TierEditorModal                                                          *)

\* The editor keeps the tier objects it was opened with. `src` says whose
\* object an entry is: "seed" with `at` = j is object j of the defaultTiers
\* array, "mirror" with `at` = j is object j of the mirror of the edited list,
\* "own" is an object nothing else refers to.

KindOf(listId) == IF listId = "pvp-tier-list" THEN "pvp" ELSE "pve"

\* the tiers state of the editor, as values
TierValues(entries) == [i \in 1..Len(entries) |-> entries[i].tier]

\* { id: Date.now().toString(), name: 'New Tier', color: 'bg-gray-500', cookieIds: [] }
NewTier(now) ==
    [id |-> ToString(now), name |-> "New Tier", color |-> "bg-gray-500", cookieIds |-> <<>>]

\* positions (counted from 1) at which the name and color controls and the
\* remove button are used
EditPositions == {1}
RemovePositions == {3}
\* handleTierChange(index, 'name', e.target.value) / handleTierChange(index, 'color', color)
TierEdits == {<<"name", "A">>, <<"color", "bg-orange-500">>}

\* TierListView.handleEditTiers: openModal('tierEditor', { tierList: activeTierList, onSave });
\* TierEditorModal: useState(tierList.tiers || [])
OpenTierEditor ==
    /\ ~tierEditor.open
    /\ LET tierList == tierLists[activeTab]
           src == IF UsesDefaultTiers(tierlistDocs, DocIdOf(activeTab)) THEN "seed" ELSE "mirror"
       IN  tierEditor' =
             [open |-> TRUE, isSaving |-> FALSE,
              tierList |-> [id |-> tierList.id, name |-> tierList.name],
              tiers |-> [j \in 1..Len(tierList.tiers) |->
                            [src |-> src, at |-> j, tier |-> tierList.tiers[j]]]]
    /\ modalStack' = PushModal(modalStack, "tierEditor", [id |-> DocIdOf(activeTab)])
    /\ RemountTierListView
    /\ lastDrop' = NoDrop
    /\ UNCHANGED <<tierLists, tierlistDocs, pendingWrites, cookieTiersMap, seedTiers, clock>>
    /\ UNCHANGED viewVars
    /\ UNCHANGED crudVars

\* mutant: setting a field empties the cookie ids of the tier
SetField_Reset(tier, field, value) == [tier EXCEPT ![field] = value, !.cookieIds = <<>>]

\* newTiers[index][field] = value, on the tier itself
SetField(tier, field, value) == [tier EXCEPT ![field] = value]

\* newTiers[index][field] = value sets the field of the tier object itself:
\* what the defaultTiers objects and the mirrors hold afterwards
WriteThrough(entry, field, value, seed, lists, docs, editedKind) ==
    LET newSeed == IF entry.src = "seed"
                   THEN [seed EXCEPT ![entry.at] = SetField(@, field, value)]
                   ELSE seed
    IN  [seedTiers |-> newSeed,
         tierLists |->
            [k \in ListKinds |->
                IF entry.src = "seed" /\ UsesDefaultTiers(docs, DocIdOf(k))
                THEN [lists[k] EXCEPT !.tiers = newSeed]
                ELSE IF entry.src = "mirror" /\ k = editedKind
                THEN [lists[k] EXCEPT !.tiers[entry.at] = SetField(@, field, value)]
                ELSE lists[k]]]

\* TierEditorModal.handleTierChange
HandleTierChange(index, field, value) ==
    /\ tierEditor.open
    /\ index \in 1..Len(tierEditor.tiers)
    /\ tierEditor' = [tierEditor EXCEPT !.tiers[index].tier = SetField(@, field, value)]
    /\ LET heap == WriteThrough(tierEditor.tiers[index], field, value, seedTiers, tierLists,
                                tierlistDocs, KindOf(tierEditor.tierList.id))
       IN  /\ seedTiers' = heap.seedTiers
           /\ tierLists' = heap.tierLists
    /\ lastDrop' = NoDrop
    /\ UNCHANGED <<tierlistDocs, pendingWrites, cookieTiersMap, activeTab, draggedCookieId,
                   unrankedSearch, clock>>
    /\ UNCHANGED viewVars
    /\ UNCHANGED appVars

\* TierEditorModal.addTier
AddTier ==
    /\ tierEditor.open
    /\ Len(tierEditor.tiers) < MaxTiers
    /\ tierEditor' = [tierEditor EXCEPT !.tiers =
                        Append(@, [src |-> "own", at |-> 0, tier |-> NewTier(clock)])]
    /\ lastDrop' = NoDrop
    /\ UNCHANGED <<tierLists, tierlistDocs, pendingWrites, cookieTiersMap, activeTab,
                   draggedCookieId, unrankedSearch, seedTiers, clock>>
    /\ UNCHANGED viewVars
    /\ UNCHANGED appVars

\* mutant: the cookie ids of the removed tier go to the first tier that is left
WithoutTier_Migrate(entries, index) ==
    LET rest == [i \in 1..(Len(entries) - 1) |->
                    IF i < index THEN entries[i] ELSE entries[i + 1]]
    IN  IF rest = <<>> THEN rest
        ELSE [rest EXCEPT ![1].tier.cookieIds = @ \o entries[index].tier.cookieIds]

\* tiers.filter((_, i) => i !== index), positions counted from 1
WithoutTier(entries, index) ==
    [i \in 1..(Len(entries) - 1) |-> IF i < index THEN entries[i] ELSE entries[i + 1]]

\* TierEditorModal.removeTier
RemoveTier(index) ==
    /\ tierEditor.open
    /\ index \in 1..Len(tierEditor.tiers)
    /\ tierEditor' = [tierEditor EXCEPT !.tiers = WithoutTier(@, index)]
    /\ lastDrop' = NoDrop
    /\ UNCHANGED <<tierLists, tierlistDocs, pendingWrites, cookieTiersMap, activeTab,
                   draggedCookieId, unrankedSearch, seedTiers, clock>>
    /\ UNCHANGED viewVars
    /\ UNCHANGED appVars

\* TierEditorModal.handleSave: await onSave({ ...tierList, tiers }); the Save
\* button is disabled while isSaving
HandleSave ==
    /\ tierEditor.open
    /\ ~tierEditor.isSaving
    /\ Len(pendingWrites) < MaxPending
    /\ pendingWrites' = SaveTierList(pendingWrites,
                            [id |-> tierEditor.tierList.id, name |-> tierEditor.tierList.name,
                             tiers |-> TierValues(tierEditor.tiers)],
                            "closeModal")
    /\ tierEditor' = [tierEditor EXCEPT !.isSaving = TRUE]
    /\ lastDrop' = NoDrop
    /\ UNCHANGED <<tierLists, tierlistDocs, cookieTiersMap, activeTab, draggedCookieId,
                   unrankedSearch, seedTiers, clock>>
    /\ UNCHANGED viewVars
    /\ UNCHANGED appVars

\* the close button, the backdrop or Escape: onCancel = closeModal
CloseTierEditor ==
    /\ tierEditor.open
    /\ tierEditor' = NoEditor
    /\ modalStack' = SliceOffLast(modalStack)
    /\ RemountTierListView
    /\ lastDrop' = NoDrop
    /\ UNCHANGED <<tierLists, tierlistDocs, pendingWrites, cookieTiersMap, seedTiers, clock>>
    /\ UNCHANGED viewVars
    /\ UNCHANGED crudVars

\* a millisecond passes
Tick ==
    /\ clock < MaxClock
    /\ clock' = clock + 1
    /\ UNCHANGED <<seedTiers, tierEditor>>
    /\ UNCHANGED tierVars
    /\ UNCHANGED viewVars
    /\ UNCHANGED appVars

\* a document whose tiers field is the object of the old tier structure
LegacyDoc(docId) ==
    [exists |-> TRUE, id |-> docId, name |-> "Tier List", tiersIsArray |-> FALSE,
     tiers |-> <<>>]

\* a document as another client has written it: c1 in tier S, c2 in tier B
PlacedDoc(docId) ==
    [exists |-> TRUE, id |-> docId, name |-> "Tier List", tiersIsArray |-> TRUE,
     tiers |-> [defaultTiers EXCEPT ![1].cookieIds = <<"c1">>, ![3].cookieIds = <<"c2">>]]

\* what another client can leave in the place of a tier-list document
RemoteDocs(docId) == {NoDoc, LegacyDoc(docId), PlacedDoc(docId)}

\* the tierlists collection changes without a write of this client, and the
\* listener receives the snapshot
TierlistsChangedRemotely(docId, d) ==
    /\ tierlistDocs[docId] # d
    /\ TierlistsListener([tierlistDocs EXCEPT ![docId] = d])
    /\ tierEditor' = DetachFromMirror(tierEditor)
    /\ RemountTierListView
    /\ lastDrop' = NoDrop
    /\ UNCHANGED <<pendingWrites, seedTiers, clock>>
    /\ UNCHANGED viewVars
    /\ UNCHANGED appVars

\* Editing and saving the tiers of the list the view shows when it is mounted,
\* while another client places cookies in it.
InitEditor == InitTier /\ InitViewIdle /\ InitUi /\ InitEmptyStore

NextEditor ==
    \/ OpenTierEditor
    \/ \E index \in EditPositions : \E edit \in TierEdits :
         HandleTierChange(index, edit[1], edit[2])
    \/ \E index \in RemovePositions : RemoveTier(index)
    \/ HandleSave
    \/ CloseTierEditor
    \/ TierlistsChangedRemotely("pvp-tier-list", PlacedDoc("pvp-tier-list"))
    \/ WriteApplied
    \/ WriteFailed

SpecEditor == InitEditor /\ [][NextEditor]_vars

\* Editing tier names and colors on both lists without saving, while other
\* clients change the documents.
InitSeed == InitTier /\ InitViewIdle /\ InitUi /\ InitEmptyStore

NextSeed ==
    \/ \E tab \in ListKinds : SetActiveTab(tab)
    \/ OpenTierEditor
    \/ \E index \in EditPositions : \E edit \in TierEdits :
         HandleTierChange(index, edit[1], edit[2])
    \/ CloseTierEditor
    \/ \E docId \in TierListDocIds : \E d \in RemoteDocs(docId) :
         TierlistsChangedRemotely(docId, d)

SpecSeed == InitSeed /\ [][NextSeed]_vars

\* Adding tiers while the clock runs.
InitAddTier == InitTier /\ InitViewIdle /\ InitUi /\ InitEmptyStore

NextAddTier ==
    \/ OpenTierEditor
    \/ AddTier
    \/ Tick
    \/ HandleSave
    \/ CloseTierEditor
    \/ WriteApplied
    \/ WriteFailed

SpecAddTier == InitAddTier /\ [][NextAddTier]_vars

----------------------------------------------------------------------------
(* Derived view pipeline: values                                            *)

\* cookie documents a snapshot can hold
MaxCookies == 3
\* document ids in the order in which a collection query returns them
CookieIdOrder == <<"c1", "c2", "c3", "c4", "c5">>
RarityIdOrder == <<"r1", "r2">>

\* a Firestore Timestamp (it has toDate), a Date (it has none), or no value
Timestamp(t) == [kind |-> "timestamp", t |-> t]
DateValue(t) == [kind |-> "date", t |-> t]
NoTime == [kind |-> "none", t |-> 0]

\* the letters of the names, in alphabetical order; each has two cases
Letters == <<"a", "b", "g">>

\* String.prototype.toLowerCase on one character
LowerChar(ch) ==
    CASE ch = "A" -> "a"
      [] ch = "B" -> "b"
      [] ch = "G" -> "g"
      [] OTHER -> ch

\* mutant: toLowerCase is left out
ToLowerCase_Id(str) == str

\* String.prototype.toLowerCase
ToLowerCase(str) == [i \in 1..Len(str) |-> LowerChar(str[i])]

\* String.prototype.includes
Includes(str, part) ==
    \E k \in 0..Len(str) :
        /\ k + Len(part) <= Len(str)
        /\ \A j \in 1..Len(part) : str[k + j] = part[j]

defaultCookie ==
    [id |-> "default-cookie-1", name |-> <<"G", "b">>, rarity |-> "Common",
     createdAt |-> DateValue(0)]

\* the field values of the cookie documents the snapshots draw from;
\* rarity "" is a document saved while the registry held no rarity, rarity
\* "5" one whose rarity the registry does not hold
CookieCatalogue ==
    << [name |-> <<"A", "b">>,      rarity |-> "Common", createdAt |-> Timestamp(2)],
       [name |-> <<"a", "B">>,      rarity |-> "Rare",   createdAt |-> Timestamp(1)],
       [name |-> <<"a">>,           rarity |-> "5",      createdAt |-> NoTime],
       [name |-> <<"b", "a", "B">>, rarity |-> "",       createdAt |-> Timestamp(1)] >>

\* the rarity documents the snapshots draw from
RarityCatalogue ==
    << [name |-> "Common", createdAt |-> NoTime],
       [name |-> "Common", createdAt |-> Timestamp(1)],
       [name |-> "Rare",   createdAt |-> NoTime] >>

SearchTerms == {<<>>, <<"a", "B">>, <<"B">>}

SortOptions == {"rarity", "name"}

\* snapshot.docs.map(doc => ({ id: doc.id, ...doc.data() })) of the snapshot
\* that follows one change of the collection mirrored in `current`: document
\* number i now has the fields catalogue[d], or is gone when d = 0; the
\* documents come in id order
SnapshotDocs(current, idOrder, n, catalogue, i, d) ==
    LET held(j) == \E k \in 1..Len(current) : current[k].id = idOrder[j]
        doc(j) == IF j = i
                  THEN [id |-> idOrder[j]] @@ catalogue[IF d = 0 THEN 1 ELSE d]
                  ELSE current[CHOOSE k \in 1..Len(current) : current[k].id = idOrder[j]]
        ids == SelectSeq([j \in 1..n |-> j],
                         LAMBDA j : IF j = i THEN d # 0 ELSE held(j))
    IN  [p \in 1..Len(ids) |-> doc(ids[p])]

\* a.createdAt?.toDate ? a.createdAt.toDate().getTime() : 0
TimeOf(doc) == IF doc.createdAt.kind = "timestamp" THEN doc.createdAt.t ELSE 0

----------------------------------------------------------------------------
(* Derived view pipeline: filter, sort, group                               *)

\* Array.prototype.indexOf: the 0-based index of the first match, -1 if none
IndexOf(seq, x) ==
    IF \E i \in 1..Len(seq) : seq[i] = x
    THEN (CHOOSE i \in 1..Len(seq) : seq[i] = x /\ \A j \in 1..(i - 1) : seq[j] # x) - 1
    ELSE -1

\* Infinity, as a rank larger than any index
Infinity == 1000

\* v ?? d for a v that is a number, null or undefined: d only when v is no number
NullishOr(v, d) == IF v \in Int THEN v ELSE d

\* rarityOrder.indexOf(a.rarity) ?? Infinity: indexOf yields a number, never null
RarityRank(rarityOrder, rarity) == NullishOr(IndexOf(rarityOrder, rarity), Infinity)

\* the place of a letter in the alphabet
LetterRank(ch) == CHOOSE i \in 1..Len(Letters) : Letters[i] = LowerChar(ch)

\* the sign of the first difference of two key sequences; a proper prefix is smaller
RECURSIVE CompareKeys(_, _)
CompareKeys(x, y) ==
    IF x = <<>> /\ y = <<>> THEN 0
    ELSE IF x = <<>> THEN -1
    ELSE IF y = <<>> THEN 1
    ELSE IF Head(x) < Head(y) THEN -1
    ELSE IF Head(x) > Head(y) THEN 1
    ELSE CompareKeys(Tail(x), Tail(y))

\* String.prototype.localeCompare: by letters first; between strings of the
\* same letters, by case, the lower case first
LocaleCompare(x, y) ==
    LET primary == CompareKeys([i \in 1..Len(x) |-> LetterRank(x[i])],
                               [i \in 1..Len(y) |-> LetterRank(y[i])])
        caseKey(str) == [i \in 1..Len(str) |-> IF LowerChar(str[i]) = str[i] THEN 0 ELSE 1]
    IN  IF primary # 0 THEN primary ELSE CompareKeys(caseKey(x), caseKey(y))

\* mutant: the rarity ranks are subtracted the wrong way round
RarityComparison_Swapped(a, b, rarityOrder) ==
    RarityRank(rarityOrder, b.rarity) - RarityRank(rarityOrder, a.rarity)

\* (rarityOrder.indexOf(a.rarity) ?? Infinity) - (rarityOrder.indexOf(b.rarity) ?? Infinity)
RarityComparison(a, b, rarityOrder) ==
    RarityRank(rarityOrder, a.rarity) - RarityRank(rarityOrder, b.rarity)

\* mutant: the direction is applied to the rarity key only
Comparator_KeyOnly(a, b, sortSpec, rarityOrder) ==
    IF sortSpec.option = "rarity"
    THEN LET byRarity == RarityComparison(a, b, rarityOrder)
         IN  IF byRarity # 0
             THEN (IF sortSpec.direction = "asc" THEN byRarity ELSE -byRarity)
             ELSE TimeOf(a) - TimeOf(b)
    ELSE LocaleCompare(a.name, b.name)

\* the compare function of sortedCookies
Comparator(a, b, sortSpec, rarityOrder) ==
    LET comparison ==
            IF sortSpec.option = "rarity"
            THEN LET byRarity == RarityComparison(a, b, rarityOrder)
                 IN  IF byRarity = 0 THEN TimeOf(a) - TimeOf(b) ELSE byRarity
            ELSE LocaleCompare(a.name, b.name)
    IN  IF sortSpec.direction = "asc" THEN comparison ELSE -comparison

\* Array.prototype.sort is stable: an element goes behind every element that
\* does not compare greater than it
InsertSorted(sorted, x, sortSpec, rarityOrder) ==
    LET after == {j \in 0..Len(sorted) :
                    \A i \in (j + 1)..Len(sorted) :
                        Comparator(sorted[i], x, sortSpec, rarityOrder) > 0}
        j == CHOOSE m \in after : \A n \in after : m <= n
    IN  SubSeq(sorted, 1, j) \o <<x>> \o SubSeq(sorted, j + 1, Len(sorted))

RECURSIVE SortFrom(_, _, _, _)
SortFrom(sorted, rest, sortSpec, rarityOrder) ==
    IF rest = <<>> THEN sorted
    ELSE SortFrom(InsertSorted(sorted, Head(rest), sortSpec, rarityOrder),
                  Tail(rest), sortSpec, rarityOrder)

\* [...list].sort(compare)
SortCookies(list, sortSpec, rarityOrder) == SortFrom(<<>>, list, sortSpec, rarityOrder)

\* cookies.filter(cookie => cookie.name.toLowerCase().includes(searchTerm.toLowerCase()))
FilterCookies(list, term) ==
    SelectSeq(list, LAMBDA cookie : Includes(ToLowerCase(cookie.name), ToLowerCase(term)))

\* attributes.rarities.map(r => r.name)
RarityOrder(rarityDocs) == [i \in 1..Len(rarityDocs) |-> rarityDocs[i].name]

\* mutant: the group key is the rarity field as it is
GroupKey_Raw(cookie) == cookie.rarity

\* cookie.rarity || 'Common'
GroupKey(cookie) == IF cookie.rarity = "" THEN "Common" ELSE cookie.rarity

\* (acc[rarity] = acc[rarity] || []).push(cookie), acc kept as the list of
\* its entries in insertion order
RECURSIVE GroupFrom(_, _)
GroupFrom(acc, rest) ==
    IF rest = <<>> THEN acc
    ELSE LET cookie == Head(rest)
             rarity == GroupKey(cookie)
             next == IF \E i \in 1..Len(acc) : acc[i].rarity = rarity
                     THEN [i \in 1..Len(acc) |->
                            IF acc[i].rarity = rarity
                            THEN [acc[i] EXCEPT !.items = Append(@, cookie)]
                            ELSE acc[i]]
                     ELSE Append(acc, [rarity |-> rarity, items |-> <<cookie>>])
         IN  GroupFrom(next, Tail(rest))

\* sortedCookies.reduce(..., {})
GroupCookies(sorted) == GroupFrom(<<>>, sorted)

\* the number a property key stands for when it is an array index (a canonical
\* non-negative integer string), -1 when it is any other string
ArrayIndexValue(key) ==
    CASE key = "0" -> 0
      [] key = "5" -> 5
      [] key = "10" -> 10
      [] OTHER -> -1

\* Object.entries(acc): own property order, the array-index keys first in
\* ascending numeric order, then the other string keys in insertion order
ObjectEntries(acc) ==
    LET isIndex(i) == ArrayIndexValue(acc[i].rarity) >= 0
        \* the number of entries emitted before entry i
        before(i) == Cardinality({j \in 1..Len(acc) :
                        IF isIndex(i)
                        THEN isIndex(j) /\ ArrayIndexValue(acc[j].rarity) < ArrayIndexValue(acc[i].rarity)
                        ELSE isIndex(j) \/ j < i})
    IN  [p \in 1..Len(acc) |-> acc[CHOOSE i \in 1..Len(acc) : before(i) = p - 1]]

\* the memoized values of a render
filteredCookies == FilterCookies(cookies, searchTerm)
sortedCookies == SortCookies(filteredCookies, sort, RarityOrder(rarities))
groupedCookies == GroupCookies(sortedCookies)

\* CookieListView: Object.entries(groupedCookies).map(... <RaritySection/>)
RenderedSections(grouped) == ObjectEntries(grouped)

----------------------------------------------------------------------------
(* Derived view pipeline: actions                                           *)

\* the cookies listener: setCookies(data.length > 0 ? data : [defaultCookie])
OnCookiesSnapshot(data) ==
    /\ cookies' = IF Len(data) > 0 THEN data ELSE <<defaultCookie>>
    /\ UNCHANGED <<rarities, searchTerm, sort>>
    /\ RemountTierListView
    /\ lastDrop' = NoDrop
    /\ UNCHANGED <<tierLists, tierlistDocs, pendingWrites, cookieTiersMap>>
    /\ UNCHANGED editorVars
    /\ UNCHANGED appVars

\* data.sort((a, b) => time(a) - time(b)), stable
SortByCreatedAt(data) ==
    LET n == Len(data)
        \* the number of documents that stand before document i after the sort
        rank(i) == Cardinality({j \in 1..n :
                        \/ TimeOf(data[j]) < TimeOf(data[i])
                        \/ (TimeOf(data[j]) = TimeOf(data[i]) /\ j < i)})
    IN  [p \in 1..n |-> data[CHOOSE i \in 1..n : rank(i) = p - 1]]

\* the rarities listener: data.sort(by createdAt); setAttributes(...)
OnRaritiesSnapshot(data) ==
    /\ rarities' = SortByCreatedAt(data)
    /\ UNCHANGED <<cookies, searchTerm, sort>>
    /\ RemountTierListView
    /\ lastDrop' = NoDrop
    /\ UNCHANGED <<tierLists, tierlistDocs, pendingWrites, cookieTiersMap>>
    /\ UNCHANGED editorVars
    /\ UNCHANGED appVars

\* the search box: setSearchTerm(e.target.value)
SetSearchTerm(term) ==
    /\ searchTerm' = term
    /\ UNCHANGED <<cookies, rarities, sort>>
    /\ RemountTierListView
    /\ lastDrop' = NoDrop
    /\ UNCHANGED <<tierLists, tierlistDocs, pendingWrites, cookieTiersMap>>
    /\ UNCHANGED editorVars
    /\ UNCHANGED appVars

\* App.handleSort
HandleSort(option) ==
    /\ sort' = [option |-> option,
                direction |-> IF sort.option = option /\ sort.direction = "asc"
                              THEN "desc" ELSE "asc"]
    /\ UNCHANGED <<cookies, rarities, searchTerm>>
    /\ RemountTierListView
    /\ lastDrop' = NoDrop
    /\ UNCHANGED <<tierLists, tierlistDocs, pendingWrites, cookieTiersMap>>
    /\ UNCHANGED editorVars
    /\ UNCHANGED appVars

InitView == InitTier /\ InitViewIdle /\ InitUi /\ InitEmptyStore

NextView ==
    \/ \E i \in 1..MaxCookies : \E d \in 0..Len(CookieCatalogue) :
         OnCookiesSnapshot(SnapshotDocs(cookies, CookieIdOrder, MaxCookies, CookieCatalogue, i, d))
    \/ \E i \in 1..Len(RarityIdOrder) : \E d \in 0..Len(RarityCatalogue) :
         OnRaritiesSnapshot(SnapshotDocs(rarities, RarityIdOrder, Len(RarityIdOrder),
                                         RarityCatalogue, i, d))
    \/ \E term \in SearchTerms : SetSearchTerm(term)
    \/ \E option \in SortOptions : HandleSort(option)

SpecView == InitView /\ [][NextView]_vars

----------------------------------------------------------------------------
(* Properties of the tier-list engine                                       *)

\* the places (tier index, position) where a cookie id occurs in a list of tiers
Places(tiers, c) ==
    UNION {{<<i, j>> : j \in {p \in 1..Len(tiers[i].cookieIds) : tiers[i].cookieIds[p] = c}} :
              i \in 1..Len(tiers)}

NoDuplicateCookie(tiers) ==
    \A i1, i2 \in 1..Len(tiers) :
        \A j1 \in 1..Len(tiers[i1].cookieIds), j2 \in 1..Len(tiers[i2].cookieIds) :
            tiers[i1].cookieIds[j1] = tiers[i2].cookieIds[j2] => (i1 = i2 /\ j1 = j2)

InTier(tiers, i, c) == \E j \in 1..Len(tiers[i].cookieIds) : tiers[i].cookieIds[j] = c

\* x stands before y in the sequence
Precedes(seq, x, y) ==
    \E i, j \in 1..Len(seq) : i < j /\ seq[i] = x /\ seq[j] = y

\* every cookie id but c is in the same tiers, in the same relative order
OthersKeepOrder(before, after, c) ==
    /\ Len(after) = Len(before)
    /\ \A i \in 1..Len(before) :
        /\ after[i].id = before[i].id
        /\ after[i].name = before[i].name
        /\ after[i].color = before[i].color
        /\ \A x \in CookieIds \ {c} :
            /\ InTier(after, i, x) <=> InTier(before, i, x)
            /\ \A y \in CookieIds \ {c} :
                 Precedes(after[i].cookieIds, x, y) <=> Precedes(before[i].cookieIds, x, y)

\* every cookie id but c is in the same tier at the same index
OthersKeepIndex(before, after, c) ==
    /\ Len(after) = Len(before)
    /\ \A i \in 1..Len(before) :
         \A j \in 1..Len(before[i].cookieIds) :
            before[i].cookieIds[j] # c =>
                /\ j <= Len(after[i].cookieIds)
                /\ after[i].cookieIds[j] = before[i].cookieIds[j]

\* the drop names a tier of the list it acts on
DropOnTier ==
    /\ lastDrop.acted
    /\ lastDrop.targetTierId # "unranked"
    /\ \E i \in 1..Len(lastDrop.before) : lastDrop.before[i].id = lastDrop.targetTierId

\* the drop names the unranked panel or an id no tier has
DropOnNoTier ==
    /\ lastDrop.acted
    /\ \/ lastDrop.targetTierId = "unranked"
       \/ \A i \in 1..Len(lastDrop.before) : lastDrop.before[i].id # lastDrop.targetTierId

\* C1: whatever moves are made on a list that starts without duplicates, every
\* list that results (the payload of each write, the stored document, the
\* local mirror) holds no cookie id in two tiers and none twice in one tier.
C1_TierInvariant ==
    /\ \A k \in ListKinds : NoDuplicateCookie(tierLists[k].tiers)
    /\ \A d \in TierListDocIds :
         tierlistDocs[d].exists => NoDuplicateCookie(tierlistDocs[d].tiers)
    /\ \A i \in 1..Len(pendingWrites) : NoDuplicateCookie(pendingWrites[i].data.tiers)
    /\ lastDrop.acted => NoDuplicateCookie(lastDrop.after)

\* a cookie that sat in one tier was dropped on another tier that already
\* held a cookie
C1_Witness ==
    /\ DropOnTier
    /\ \E i, j \in 1..Len(lastDrop.before) :
         /\ i # j
         /\ InTier(lastDrop.before, i, lastDrop.cookieId)
         /\ lastDrop.before[j].id = lastDrop.targetTierId
         /\ lastDrop.before[j].cookieIds # <<>>
         /\ Len(lastDrop.after[j].cookieIds) = 2

\* C2: moveCookie is idempotent: on every list the moves on the active tab
\* reach, for every cookie id and target, moving twice gives the list that
\* moving once gives.
C2_MoveIdempotent ==
    \A c \in CookieIds : \A t \in DropTargets :
        LET once == MoveCookie(tierLists[activeTab].tiers, c, t)
        IN  MoveCookie(once, c, t) = once

\* the last drop changed the list (the cookie stood before another cookie of
\* the target tier) and the same drop again changes nothing
C2_Witness ==
    /\ DropOnTier
    /\ lastDrop.after # lastDrop.before
    /\ \E i \in 1..Len(lastDrop.before) :
         /\ lastDrop.before[i].id = lastDrop.targetTierId
         /\ Len(lastDrop.before[i].cookieIds) = 2
         /\ lastDrop.before[i].cookieIds[1] = lastDrop.cookieId
    /\ MoveCookie(lastDrop.after, lastDrop.cookieId, lastDrop.targetTierId) = lastDrop.after

\* C3: the lookup table has a pvp entry for a cookie id exactly when a PvP
\* tier holds the id, and the entry is that tier's name; the same for pve
\* with the PvE list.
C3_LookupConsistent ==
    \A k \in ListKinds : \A c \in CookieIds :
        LET tiers == tierLists[k].tiers
        IN  /\ (cookieTiersMap[c][k] # NoEntry) <=> (\E i \in 1..Len(tiers) : InTier(tiers, i, c))
            /\ \A i \in 1..Len(tiers) : InTier(tiers, i, c) => cookieTiersMap[c][k] = tiers[i].name

\* the example of the specification, reached by moves: pvp S holds the cookie,
\* pve A holds it, and another cookie was moved out of its PvP tier again
C3_Witness ==
    /\ InTier(tierLists.pvp.tiers, 1, "c1")
    /\ InTier(tierLists.pve.tiers, 2, "c1")
    /\ cookieTiersMap["c1"] = [pvp |-> "S", pve |-> "A"]
    /\ cookieTiersMap["c2"] = [pvp |-> NoEntry, pve |-> "S"]
    /\ tierlistDocs["pvp-tier-list"].exists
    /\ tierlistDocs["pve-tier-list"].exists

\* C4: a drop on a tier of the list leaves the cookie id last in that tier and
\* in no other tier, and every other cookie id where it was, in the same
\* relative order.
C4_AppendToTarget ==
    DropOnTier =>
        LET b == lastDrop.before
            a == lastDrop.after
            c == lastDrop.cookieId
        IN  /\ OthersKeepOrder(b, a, c)
            /\ Cardinality(Places(a, c)) = 1
            /\ \A k \in 1..Len(b) :
                 (/\ b[k].id = lastDrop.targetTierId
                  /\ \A j \in 1..(k - 1) : b[j].id # lastDrop.targetTierId)
                 => /\ a[k].cookieIds # <<>>
                    /\ a[k].cookieIds[Len(a[k].cookieIds)] = c
                    /\ \A j \in 1..Len(a) : j # k => ~InTier(a, j, c)

\* the cookie stood first in the target tier, before two other cookies, and
\* now stands last
C4_Witness ==
    /\ DropOnTier
    /\ \E k \in 1..Len(lastDrop.before) :
         /\ lastDrop.before[k].id = lastDrop.targetTierId
         /\ Len(lastDrop.before[k].cookieIds) = 3
         /\ lastDrop.before[k].cookieIds[1] = lastDrop.cookieId
         /\ lastDrop.after[k].cookieIds[3] = lastDrop.cookieId

\* C5 as stated: a drop on the unranked panel, or on an id no tier has, leaves
\* the cookie id in no tier and every other cookie id in its tier at its
\* position.
C5_OthersKeepPosition ==
    DropOnNoTier =>
        /\ \A i \in 1..Len(lastDrop.after) : ~InTier(lastDrop.after, i, lastDrop.cookieId)
        /\ OthersKeepIndex(lastDrop.before, lastDrop.after, lastDrop.cookieId)

\* C5 as amended: a drop on the unranked panel, or on an id no tier has, leaves
\* the cookie id in no tier and every other cookie id in its tier, in the same
\* order relative to the others.
C5_UnrankRemoves ==
    DropOnNoTier =>
        /\ \A i \in 1..Len(lastDrop.after) : ~InTier(lastDrop.after, i, lastDrop.cookieId)
        /\ OthersKeepOrder(lastDrop.before, lastDrop.after, lastDrop.cookieId)

\* a cookie that stood between two others in a tier was dropped on an id that
\* no tier has
C5_Witness ==
    /\ DropOnNoTier
    /\ lastDrop.targetTierId # "unranked"
    /\ \E i \in 1..Len(lastDrop.before) :
         /\ Len(lastDrop.before[i].cookieIds) = 3
         /\ lastDrop.before[i].cookieIds[2] = lastDrop.cookieId
         /\ Len(lastDrop.after[i].cookieIds) = 2

\* C13: a drop with a dragged cookie issues exactly one write, to the document
\* of the active list, carrying all tiers of that list as they are after the
\* move: the queue of issued writes grows by that one write and nothing else.
C13_OneWriteToActiveList ==
    [][lastDrop'.acted =>
        /\ Len(pendingWrites') = Len(pendingWrites) + 1
        /\ SubSeq(pendingWrites', 1, Len(pendingWrites)) = pendingWrites
        /\ LET w == pendingWrites'[Len(pendingWrites')]
           IN  /\ w.collection = "tierlists"
               /\ w.id = DocIdOf(lastDrop'.tab)
               /\ w.id = tierLists[lastDrop'.tab].id
               /\ w.data.tiers = lastDrop'.after
               /\ Len(w.data.tiers) = Len(tierLists[lastDrop'.tab].tiers)
               /\ \A i \in 1..Len(w.data.tiers) :
                    w.data.tiers[i].id = tierLists[lastDrop'.tab].tiers[i].id]_vars

\* a move on the PvE list, made after the PvP list has been persisted, has
\* issued its write to the PvE document
C13_Witness ==
    /\ lastDrop.acted
    /\ lastDrop.tab = "pve"
    /\ lastDrop.after # lastDrop.before
    /\ tierlistDocs["pvp-tier-list"].exists
    /\ ~tierlistDocs["pve-tier-list"].exists
    /\ pendingWrites # <<>>
    /\ pendingWrites[Len(pendingWrites)].id = "pve-tier-list"

\* the last step was a drop of a dragged cookie on an id that is neither
\* "unranked" nor the id of a tier of the list
DropOnMissingTier ==
    /\ DropOnNoTier
    /\ lastDrop.targetTierId # "unranked"

\* C14 as stated: a drop on a tier id that the active list does not have
\* leaves the tiers as they were.
C14_DropOnMissingTierNoOp ==
    DropOnMissingTier => lastDrop.after = lastDrop.before

\* C14 as amended: a drop on a tier id that the active list does not have does
\* what a drop on "unranked" does; it leaves the tiers as they were only when
\* the dragged cookie was in no tier, and its write carries the resulting tiers.
C14_DropOnMissingTierUnranks ==
    DropOnMissingTier =>
        /\ lastDrop.after = MoveCookie(lastDrop.before, lastDrop.cookieId, "unranked")
        /\ (lastDrop.after = lastDrop.before)
             <=> (\A i \in 1..Len(lastDrop.before) :
                     ~InTier(lastDrop.before, i, lastDrop.cookieId))
        /\ pendingWrites # <<>>
        /\ pendingWrites[Len(pendingWrites)].data.tiers = lastDrop.after

\* a cookie that was the only one of tier A was dropped on an id no tier has
C14_Witness ==
    /\ DropOnMissingTier
    /\ lastDrop.before[2].cookieIds = <<lastDrop.cookieId>>
    /\ lastDrop.after[2].cookieIds = <<>>
    /\ lastDrop.before[1].cookieIds # <<>>

\* C15: a drop while no cookie is dragged issues no write and leaves both tier
\* lists, their documents and the dragged id as they were.
C15_DropWithoutDragNoOp ==
    [][lastDrop'.ignored =>
        /\ draggedCookieId = Null
        /\ draggedCookieId' = Null
        /\ pendingWrites' = pendingWrites
        /\ tierLists' = tierLists
        /\ tierlistDocs' = tierlistDocs
        /\ cookieTiersMap' = cookieTiersMap]_vars

\* the second of two drops, the write of the first still in flight: the first
\* drop has reset the dragged id and no drag has started since
C15_Witness ==
    /\ lastDrop.ignored
    /\ draggedCookieId = Null
    /\ Len(pendingWrites) = 1
    /\ pendingWrites[1].data.tiers # tierLists[activeTab].tiers

----------------------------------------------------------------------------
(* TierListView: the unranked cookies                                       *)

\* mutant: the set holds the ids of the tiers, not those of their cookies
AllRankedCookies_TierIds(tiers) == {tiers[i].id : i \in 1..Len(tiers)}

\* new Set(tiers.flatMap(t => t.cookieIds))
AllRankedCookies(tiers) ==
    UNION {{tiers[i].cookieIds[j] : j \in 1..Len(tiers[i].cookieIds)} : i \in 1..Len(tiers)}

\* .sort((a, b) => rank(a.rarity) - rank(b.rarity)), stable
SortByRarityRank(list, rarityOrder) ==
    LET n == Len(list)
        \* the number of cookies that stand before cookie i after the sort
        before(i) == Cardinality({j \in 1..n :
                        \/ RarityComparison(list[j], list[i], rarityOrder) < 0
                        \/ (RarityComparison(list[j], list[i], rarityOrder) = 0 /\ j < i)})
    IN  [p \in 1..n |-> list[CHOOSE i \in 1..n : before(i) = p - 1]]

\* the unrankedCookies memo
UnrankedCookies(list, tiers, term, rarityOrder) ==
    LET ranked == AllRankedCookies(tiers)
    IN  SortByRarityRank(
            SelectSeq(list, LAMBDA c : /\ c.id \notin ranked
                                       /\ Includes(ToLowerCase(c.name), ToLowerCase(term))),
            rarityOrder)

unrankedCookies ==
    UnrankedCookies(cookies, tierLists[activeTab].tiers, unrankedSearch, RarityOrder(rarities))

\* the search box of the unranked pool: setUnrankedSearch(e.target.value)
SetUnrankedSearch(term) ==
    /\ unrankedSearch' = term
    /\ lastDrop' = NoDrop
    /\ UNCHANGED <<tierLists, tierlistDocs, pendingWrites, cookieTiersMap, activeTab,
                   draggedCookieId>>
    /\ UNCHANGED editorVars
    /\ UNCHANGED viewVars
    /\ UNCHANGED appVars

\* the cookie documents and the drop targets of the unranked pool's runs
UnrankedSlots == {1, 2, 3}
UnrankedDocs == {0, 1, 3}
UnrankedDragged == {"c1", "default-cookie-1"}
UnrankedTargets == {"S", "unranked"}
UnrankedTerms == {<<>>, <<"B">>}

\* Cookies of the mirror are dragged between the unranked pool and a tier
\* while the cookies and the rarities change.
InitUnranked == InitTier /\ InitViewIdle /\ InitUi /\ InitEmptyStore

NextUnranked ==
    \/ \E i \in UnrankedSlots : \E d \in UnrankedDocs :
         OnCookiesSnapshot(SnapshotDocs(cookies, CookieIdOrder, MaxCookies, CookieCatalogue, i, d))
    \/ \E d \in {0, 1} :
         OnRaritiesSnapshot(SnapshotDocs(rarities, RarityIdOrder, Len(RarityIdOrder),
                                         RarityCatalogue, 1, d))
    \/ \E term \in UnrankedTerms : SetUnrankedSearch(term)
    \/ \E k \in 1..Len(cookies) :
         cookies[k].id \in UnrankedDragged /\ HandleDragStart(cookies[k].id)
    \/ \E t \in UnrankedTargets : HandleDrop(t)
    \/ WriteApplied
    \/ WriteFailed

SpecUnranked == InitUnranked /\ [][NextUnranked]_vars

----------------------------------------------------------------------------
(* The cookies, powerups and rarities collections                           *)

\* modal data that is null
NoData == [id |-> Null]

\* the place of a document id in the order of a query
IdRank(idOrder, id) == CHOOSE i \in 1..Len(idOrder) : idOrder[i] = id

PowerUpIdOrder == <<"p1", "p2">>

HasDoc(docs, id) == \E k \in 1..Len(docs) : docs[k].id = id

\* deleteDoc(doc(db, path, id))
DeleteDoc(docs, id) == SelectSeq(docs, LAMBDA d : d.id # id)

\* setDoc(doc(collectionRef, id), data, { merge: true }) with data that holds
\* every field of the document: the document is created if it is missing
SetDoc(docs, idOrder, id, data) ==
    LET others == DeleteDoc(docs, id)
        before == SelectSeq(others, LAMBDA d : IdRank(idOrder, d.id) < IdRank(idOrder, id))
        after == SelectSeq(others, LAMBDA d : IdRank(idOrder, d.id) > IdRank(idOrder, id))
    IN  before \o <<[data EXCEPT !.id = id]>> \o after

\* the id addDoc gives to a new document
NewId(docs, idOrder) == idOrder[CHOOSE i \in 1..Len(idOrder) :
                                    /\ ~HasDoc(docs, idOrder[i])
                                    /\ \A j \in 1..(i - 1) : HasDoc(docs, idOrder[j])]

\* setCookies(data.length > 0 ? data : [defaultCookie])
MirrorOfCookies(docs) == IF Len(docs) > 0 THEN docs ELSE <<defaultCookie>>

\* stored cookies are not created beyond CookieIdOrder[MaxCookies]
CanAddCookie == \E i \in 1..MaxCookies : ~HasDoc(cookieDocs, CookieIdOrder[i])

----------------------------------------------------------------------------
(* Snapshot listeners of the cookies, powerups and rarities collections     *)

\* CookieForm's effect on [cookie, attributes]: the form data are set anew
\* from the cookie prop and the first rarity of the registry
FormDataFor(cookie, registry) ==
    IF cookie = NoData
    THEN [name |-> <<>>,
          rarity |-> IF registry = <<>> THEN "" ELSE registry[1].name,
          powerUpId |-> ""]
    ELSE [name |-> cookie.name, rarity |-> cookie.rarity,
          powerUpId |-> IF "powerUpId" \in DOMAIN cookie THEN cookie.powerUpId ELSE ""]

\* the first snapshot of the cookies collection, or one after a remote change
CookiesSnapshot ==
    /\ cookies # MirrorOfCookies(cookieDocs)
    /\ cookies' = MirrorOfCookies(cookieDocs)
    /\ RemountTierListView
    /\ lastDrop' = NoDrop
    /\ lastAnswer' = NoAnswer
    /\ attrForm' = EmptyAttrForm
    /\ UNCHANGED <<tierLists, tierlistDocs, pendingWrites, cookieTiersMap>>
    /\ UNCHANGED editorVars
    /\ UNCHANGED <<rarities, searchTerm, sort>>
    /\ UNCHANGED <<modalStack, confirmAction, deleting, cookieDocs, powerUpDocs, powerUps,
                   registryDocs, cookieForm, serverTime>>

\* the first snapshot of the powerups collection, or one after a remote change
PowerUpsSnapshot ==
    /\ powerUps # powerUpDocs
    /\ powerUps' = powerUpDocs
    /\ RemountTierListView
    /\ lastDrop' = NoDrop
    /\ lastAnswer' = NoAnswer
    /\ attrForm' = EmptyAttrForm
    /\ UNCHANGED <<tierLists, tierlistDocs, pendingWrites, cookieTiersMap>>
    /\ UNCHANGED editorVars
    /\ UNCHANGED viewVars
    /\ UNCHANGED <<modalStack, confirmAction, deleting, cookieDocs, powerUpDocs,
                   registryDocs, cookieForm, serverTime>>

\* the first snapshot of the rarities collection, or one after a remote
\* change: data.sort(by createdAt); setAttributes(...); a mounted CookieForm
\* runs its effect
RaritiesSnapshot ==
    /\ rarities # SortByCreatedAt(registryDocs)
    /\ rarities' = SortByCreatedAt(registryDocs)
    /\ cookieForm' = IF cookieForm.mounted
                     THEN [cookieForm EXCEPT !.formData =
                              FormDataFor(cookieForm.cookie, SortByCreatedAt(registryDocs))]
                     ELSE cookieForm
    /\ RemountTierListView
    /\ lastDrop' = NoDrop
    /\ lastAnswer' = NoAnswer
    /\ attrForm' = EmptyAttrForm
    /\ UNCHANGED <<tierLists, tierlistDocs, pendingWrites, cookieTiersMap>>
    /\ UNCHANGED editorVars
    /\ UNCHANGED <<cookies, searchTerm, sort>>
    /\ UNCHANGED <<modalStack, confirmAction, deleting, cookieDocs, powerUpDocs, powerUps,
                   registryDocs, serverTime>>

----------------------------------------------------------------------------
(* Modals of the cookie list and of the power-up list                       *)

\* what an App state change leaves alone when it touches the modal stack only
ModalFrame ==
    /\ RemountTierListView
    /\ lastDrop' = NoDrop
    /\ lastAnswer' = NoAnswer
    /\ attrForm' = EmptyAttrForm
    /\ UNCHANGED <<tierLists, tierlistDocs, pendingWrites, cookieTiersMap>>
    /\ UNCHANGED editorVars
    /\ UNCHANGED viewVars
    /\ UNCHANGED <<confirmAction, deleting, cookieDocs, powerUpDocs, powerUps, registryDocs,
                   serverTime>>

\* a cookie card of the list: onCardClick('detail', cookie)
OpenCookieDetail(k) ==
    /\ modalStack = <<>>
    /\ ~confirmAction.pending
    /\ k \in 1..Len(cookies)
    /\ modalStack' = PushModal(modalStack, "detail", cookies[k])
    /\ UNCHANGED cookieForm
    /\ ModalFrame

\* a power-up card: onCardClick('powerUpDetail', powerUp)
OpenPowerUpDetail(k) ==
    /\ modalStack = <<>>
    /\ ~confirmAction.pending
    /\ k \in 1..Len(powerUps)
    /\ modalStack' = PushModal(modalStack, "powerUpDetail", powerUps[k])
    /\ UNCHANGED cookieForm
    /\ ModalFrame

\* CookieForm is mounted with the modal data as its cookie prop
MountCookieForm(cookie) ==
    [mounted |-> TRUE, isSaving |-> FALSE, cookie |-> cookie,
     formData |-> FormDataFor(cookie, rarities)]

\* the edit button of CookieDetail: onEdit = (cookie) => openModal('form', cookie)
EditFromDetail ==
    /\ currentModal.type = "detail"
    /\ ~confirmAction.pending
    /\ modalStack' = PushModal(modalStack, "form", currentModal.data)
    /\ cookieForm' = MountCookieForm(currentModal.data)
    /\ ModalFrame

\* a costume of CookieDetail: openModal('costumeDetail', { ...costume, cookie: modalData })
OpenCostumeDetail(j) ==
    /\ currentModal.type = "detail"
    /\ ~confirmAction.pending
    /\ "costumes" \in DOMAIN currentModal.data
    /\ j \in 1..Len(currentModal.data.costumes)
    /\ modalStack' = PushModal(modalStack, "costumeDetail",
                               [name |-> currentModal.data.costumes[j].name,
                                cookie |-> currentModal.data])
    /\ UNCHANGED cookieForm
    /\ ModalFrame

\* the add button of the cookie list: openModal('form')
OpenNewCookieForm ==
    /\ modalStack = <<>>
    /\ ~confirmAction.pending
    /\ modalStack' = PushModal(modalStack, "form", NoData)
    /\ cookieForm' = MountCookieForm(NoData)
    /\ ModalFrame

\* the modal that is shown after a closeModal: a CookieForm under it is not
\* mounted while it is covered, so the form that shows is a new one
FormShownBy(stack) ==
    IF stack # <<>> /\ stack[Len(stack)].type = "form"
    THEN MountCookieForm(stack[Len(stack)].data)
    ELSE NoCookieForm

\* the close button, the backdrop: onClose = closeModal
CloseModal ==
    /\ modalStack # <<>>
    /\ currentModal.type # "tierEditor"
    /\ ~confirmAction.pending
    /\ modalStack' = SliceOffLast(modalStack)
    /\ cookieForm' = FormShownBy(SliceOffLast(modalStack))
    /\ ModalFrame

----------------------------------------------------------------------------
(* CookieForm                                                               *)

\* the name typed into a new cookie's form
NewCookieName == <<"a">>

\* a state change of CookieForm leaves App as it is
FormFrame ==
    /\ lastDrop' = NoDrop
    /\ lastAnswer' = NoAnswer
    /\ UNCHANGED <<tierLists, tierlistDocs, pendingWrites, cookieTiersMap, activeTab,
                   draggedCookieId, unrankedSearch>>
    /\ UNCHANGED editorVars
    /\ UNCHANGED viewVars
    /\ UNCHANGED <<modalStack, confirmAction, deleting, cookieDocs, powerUpDocs,
                   powerUps, registryDocs, attrForm, serverTime>>

\* attributes.rarities.find(r => r.name === formData.rarity)?.allowsPowerUp
canHavePowerUp(registry, rarity) ==
    /\ \E i \in 1..Len(registry) : registry[i].name = rarity
    /\ registry[CHOOSE i \in 1..Len(registry) :
                    /\ registry[i].name = rarity
                    /\ \A j \in 1..(i - 1) : registry[j].name # rarity].allowsPowerUp

\* the rarity select: handleChange with name = 'rarity'
HandleChangeRarity(i) ==
    /\ cookieForm.mounted
    /\ ~cookieForm.isSaving
    /\ ~confirmAction.pending
    /\ i \in 1..Len(rarities)
    /\ cookieForm' = [cookieForm EXCEPT !.formData.rarity = rarities[i].name]
    /\ FormFrame

\* the power-up select, rendered when canHavePowerUp: handleChange with
\* name = 'powerUpId'; k = 0 is the entry "None"
HandleChangePowerUp(k) ==
    /\ cookieForm.mounted
    /\ ~cookieForm.isSaving
    /\ ~confirmAction.pending
    /\ canHavePowerUp(rarities, cookieForm.formData.rarity)
    /\ k \in 0..Len(powerUps)
    /\ cookieForm' = [cookieForm EXCEPT
                        !.formData.powerUpId = IF k = 0 THEN "" ELSE powerUps[k].id]
    /\ FormFrame

\* handleSaveCookie: const dataToSave = { ...cookieData }; createdAt is set
\* by the store for a new cookie
DataToSave(form) ==
    LET name == IF form.formData.name = <<>> THEN NewCookieName ELSE form.formData.name
    IN  IF form.cookie = NoData
        THEN [id |-> Null, name |-> name, rarity |-> form.formData.rarity,
              powerUpId |-> form.formData.powerUpId, createdAt |-> NoTime]
        ELSE [f \in DOMAIN form.cookie \cup {"powerUpId"} |->
                 CASE f = "name" -> name
                   [] f = "rarity" -> form.formData.rarity
                   [] f = "powerUpId" -> form.formData.powerUpId
                   [] OTHER -> form.cookie[f]]

\* CookieForm.handleSubmit: setIsSaving(true); await onSave(formData, cookie?.id)
\* App.handleSaveCookie: await saveData('cookies', dataToSave, id); closeModal()
SubmitCookieForm ==
    /\ cookieForm.mounted
    /\ ~cookieForm.isSaving
    /\ ~confirmAction.pending
    /\ Len(pendingWrites) < MaxPending
    /\ cookieForm.cookie = NoData => CanAddCookie
    /\ pendingWrites' = Append(pendingWrites,
            [collection |-> "cookies",
             op |-> IF cookieForm.cookie = NoData THEN "add" ELSE "set",
             id |-> cookieForm.cookie.id,
             data |-> DataToSave(cookieForm),
             then |-> "closeModal"])
    /\ cookieForm' = [cookieForm EXCEPT !.isSaving = TRUE]
    /\ lastDrop' = NoDrop
    /\ lastAnswer' = NoAnswer
    /\ UNCHANGED <<tierLists, tierlistDocs, cookieTiersMap, activeTab, draggedCookieId,
                   unrankedSearch>>
    /\ UNCHANGED editorVars
    /\ UNCHANGED viewVars
    /\ UNCHANGED <<modalStack, confirmAction, deleting, cookieDocs, powerUpDocs,
                   powerUps, registryDocs, attrForm, serverTime>>

\* the cookies collection after a write of a cookie is applied
ApplyCookieWrite(docs, w, now) ==
    IF w.op = "delete" THEN DeleteDoc(docs, w.id)
    ELSE IF w.op = "add"
    THEN SetDoc(docs, CookieIdOrder, NewId(docs, CookieIdOrder),
                [w.data EXCEPT !.createdAt = Timestamp(now)])
    ELSE SetDoc(docs, CookieIdOrder, w.id, w.data)

\* timestamps are not given beyond this time
MaxServerTime == 5

\* the store applies the write of handleSaveCookie and the cookies listener
\* runs; handleSaveCookie then closes the top modal
CookieSaveApplied ==
    /\ pendingWrites # <<>>
    /\ Head(pendingWrites).collection = "cookies"
    /\ Head(pendingWrites).then = "closeModal"
    /\ Head(pendingWrites).op = "add" => serverTime < MaxServerTime
    /\ LET w == Head(pendingWrites)
           docs == ApplyCookieWrite(cookieDocs, w, serverTime)
       IN  /\ cookieDocs' = docs
           /\ cookies' = MirrorOfCookies(docs)
           /\ serverTime' = IF w.op = "add" THEN serverTime + 1 ELSE serverTime
    /\ pendingWrites' = Tail(pendingWrites)
    /\ modalStack' = SliceOffLast(modalStack)
    /\ cookieForm' = FormShownBy(SliceOffLast(modalStack))
    /\ RemountTierListView
    /\ lastDrop' = NoDrop
    /\ lastAnswer' = NoAnswer
    /\ attrForm' = EmptyAttrForm
    /\ UNCHANGED <<tierLists, tierlistDocs, cookieTiersMap>>
    /\ UNCHANGED editorVars
    /\ UNCHANGED <<rarities, searchTerm, sort>>
    /\ UNCHANGED <<confirmAction, deleting, powerUpDocs, powerUps, registryDocs>>

\* the write of handleSaveCookie is rejected: saveData catches and returns
\* null; handleSaveCookie closes the top modal all the same
CookieSaveFailed ==
    /\ pendingWrites # <<>>
    /\ Head(pendingWrites).collection = "cookies"
    /\ Head(pendingWrites).then = "closeModal"
    /\ pendingWrites' = Tail(pendingWrites)
    /\ modalStack' = SliceOffLast(modalStack)
    /\ cookieForm' = FormShownBy(SliceOffLast(modalStack))
    /\ RemountTierListView
    /\ lastDrop' = NoDrop
    /\ lastAnswer' = NoAnswer
    /\ attrForm' = EmptyAttrForm
    /\ UNCHANGED <<tierLists, tierlistDocs, cookieTiersMap>>
    /\ UNCHANGED editorVars
    /\ UNCHANGED viewVars
    /\ UNCHANGED <<confirmAction, deleting, cookieDocs, powerUpDocs, powerUps, registryDocs,
                   serverTime>>

----------------------------------------------------------------------------
(* App.handleDelete and the confirm dialog                                  *)

\* c.powerUpId of a cookie of the mirror; the placeholder cookie has none
PowerUpIdOf(cookie) == IF "powerUpId" \in DOMAIN cookie THEN cookie.powerUpId ELSE Null

\* mutant: the document is deleted without asking
HandleDelete_Immediate(collectionName, id) ==
    /\ ~confirmAction.pending
    /\ ~deleting.running
    /\ Len(pendingWrites) < MaxPending
    /\ pendingWrites' = Append(pendingWrites,
                               [collection |-> collectionName, op |-> "delete", id |-> id,
                                data |-> NoData, then |-> "delete"])
    /\ deleting' = [running |-> TRUE, collectionName |-> collectionName, id |-> id,
                    calls |-> <<>>, failed |-> FALSE]
    /\ RemountTierListView
    /\ lastDrop' = NoDrop
    /\ lastAnswer' = NoAnswer
    /\ attrForm' = EmptyAttrForm
    /\ UNCHANGED <<tierLists, tierlistDocs, cookieTiersMap>>
    /\ UNCHANGED editorVars
    /\ UNCHANGED viewVars
    /\ UNCHANGED <<modalStack, confirmAction, cookieDocs, powerUpDocs, powerUps, registryDocs,
                   cookieForm, serverTime>>

\* setConfirmAction({ message, action }): the action is a closure over
\* tierLists and cookies of this render; name is the costume's name when a
\* costume is to be deleted
SetConfirmAction(collectionName, id, name) ==
    /\ ~confirmAction.pending
    /\ ~deleting.running
    /\ confirmAction' = [pending |-> TRUE, collectionName |-> collectionName, id |-> id,
                         name |-> name, tierLists |-> tierLists, cookies |-> cookies]
    /\ RemountTierListView
    /\ lastDrop' = NoDrop
    /\ lastAnswer' = NoAnswer
    /\ attrForm' = EmptyAttrForm
    /\ UNCHANGED <<tierLists, tierlistDocs, pendingWrites, cookieTiersMap>>
    /\ UNCHANGED editorVars
    /\ UNCHANGED viewVars
    /\ UNCHANGED <<modalStack, deleting, cookieDocs, powerUpDocs, powerUps, registryDocs,
                   cookieForm, serverTime>>

\* handleDelete(collectionName, id)
HandleDelete(collectionName, id) == SetConfirmAction(collectionName, id, Null)

\* the delete button of an entry of AttributeManager: onDelete(activeTab, attr.id)
HandleDeleteAttribute(type, id) == SetConfirmAction(type, id, Null)

\* the delete button of CostumeDetail: onDelete(costume)
HandleDeleteCostume ==
    /\ currentModal.type = "costumeDetail"
    /\ SetConfirmAction("costumes", currentModal.data.cookie.id, currentModal.data.name)

\* the delete button of CookieDetail: onDelete(cookie.id)
DeleteFromCookieDetail ==
    /\ currentModal.type = "detail"
    /\ HandleDelete("cookies", currentModal.data.id)

\* the delete button of PowerUpDetail: onDelete(powerUp.id)
DeleteFromPowerUpDetail ==
    /\ currentModal.type = "powerUpDetail"
    /\ HandleDelete("powerups", currentModal.data.id)

\* if (changed) await handleSaveTierList({ ...list, tiers: newTiers }), for one list
TierCallOfDelete(list, id) ==
    LET newTiers == RemoveFromTiers(list.tiers, id)
    IN  IF newTiers # list.tiers
        THEN SaveTierList(<<>>, [list EXCEPT !.tiers = newTiers], "delete")
        ELSE <<>>

\* const linkedCookie = cookies.find(c => c.powerUpId === id);
\* if (linkedCookie) await saveData('cookies', { ...linkedCookie, powerUpId: '' }, linkedCookie.id)
LinkedCookieCalls(list, id) ==
    LET linked == SelectSeq(list, LAMBDA c : PowerUpIdOf(c) = id)
    IN  IF linked = <<>> THEN <<>>
        ELSE <<[collection |-> "cookies", op |-> "set", id |-> linked[1].id,
                data |-> [linked[1] EXCEPT !.powerUpId = ""], then |-> "delete"]>>

\* handleDeleteCostume: the parent cookie is saved without the costumes of
\* that name; nothing is done when the cookie is not among cookies
CostumeCalls(list, id, name) ==
    LET parents == SelectSeq(list, LAMBDA c : c.id = id)
        costumes == IF "costumes" \in DOMAIN parents[1] THEN parents[1].costumes ELSE <<>>
        updatedCostumes == SelectSeq(costumes, LAMBDA co : co.name # name)
    IN  IF parents = <<>> THEN <<>>
        ELSE <<[collection |-> "cookies", op |-> "set", id |-> id,
                data |-> [f \in DOMAIN parents[1] \cup {"costumes"} |->
                             IF f = "costumes" THEN updatedCostumes ELSE parents[1][f]],
                then |-> "delete"]>>

\* the calls the action awaits one after the other: those of handleDelete
\* with the deleteDoc last, the one of handleDeleteCostume, the deleteDoc of
\* handleDeleteAttribute
DeleteCalls(c) ==
    IF c.collectionName = "costumes" THEN CostumeCalls(c.cookies, c.id, c.name)
    ELSE
      (IF c.collectionName = "cookies"
       THEN TierCallOfDelete(c.tierLists.pvp, c.id) \o TierCallOfDelete(c.tierLists.pve, c.id)
       ELSE <<>>)
      \o (IF c.collectionName = "powerups" THEN LinkedCookieCalls(c.cookies, c.id) ELSE <<>>)
      \o <<[collection |-> c.collectionName, op |-> "delete", id |-> c.id, data |-> NoData,
            then |-> "delete"]>>

\* closeModal() follows the last call: in handleDelete when the deleteDoc
\* was applied, in handleDeleteCostume whatever saveData returned, never in
\* handleDeleteAttribute
ClosesModalAfter(collectionName, applied) ==
    \/ collectionName \in {"cookies", "powerups"} /\ applied
    \/ collectionName = "costumes"

\* the Cancel button of ConfirmDialog: setConfirmAction(null)
CancelConfirm ==
    /\ confirmAction.pending
    /\ confirmAction' = NoConfirm
    /\ lastAnswer' = [answer |-> "cancel", collectionName |-> confirmAction.collectionName,
                      id |-> confirmAction.id]
    /\ RemountTierListView
    /\ lastDrop' = NoDrop
    /\ attrForm' = EmptyAttrForm
    /\ UNCHANGED <<tierLists, tierlistDocs, pendingWrites, cookieTiersMap>>
    /\ UNCHANGED editorVars
    /\ UNCHANGED viewVars
    /\ UNCHANGED <<modalStack, deleting, cookieDocs, powerUpDocs, powerUps, registryDocs,
                   cookieForm, serverTime>>

\* the Confirm button: confirmAction.action(); setConfirmAction(null); the
\* action runs up to its first await
ConfirmPending ==
    /\ confirmAction.pending
    /\ Len(pendingWrites) < MaxPending
    /\ LET calls == DeleteCalls(confirmAction)
       IN  IF calls = <<>> THEN UNCHANGED <<pendingWrites, deleting>>
           ELSE /\ pendingWrites' = Append(pendingWrites, Head(calls))
                /\ deleting' = [running |-> TRUE,
                                collectionName |-> confirmAction.collectionName,
                                id |-> confirmAction.id, calls |-> Tail(calls),
                                failed |-> FALSE]
    /\ confirmAction' = NoConfirm
    /\ lastAnswer' = [answer |-> "confirm", collectionName |-> confirmAction.collectionName,
                      id |-> confirmAction.id]
    /\ RemountTierListView
    /\ lastDrop' = NoDrop
    /\ attrForm' = EmptyAttrForm
    /\ UNCHANGED <<tierLists, tierlistDocs, cookieTiersMap>>
    /\ UNCHANGED editorVars
    /\ UNCHANGED viewVars
    /\ UNCHANGED <<modalStack, cookieDocs, powerUpDocs, powerUps, registryDocs,
                   cookieForm, serverTime>>

\* the awaited call of the running action settles. A saveData call that is
\* rejected returns null and the action goes on; a deleteDoc is the last
\* call, and rejected it ends the action
DeleteCallSettled(applied) ==
    /\ pendingWrites # <<>>
    /\ Head(pendingWrites).then = "delete"
    /\ LET w == Head(pendingWrites)
           isLast == deleting.calls = <<>>
           closes == isLast /\ ClosesModalAfter(deleting.collectionName, applied)
       IN  /\ pendingWrites' = IF isLast THEN Tail(pendingWrites)
                               ELSE Append(Tail(pendingWrites), Head(deleting.calls))
           /\ deleting' = IF isLast THEN NotDeleting
                          ELSE [deleting EXCEPT !.calls = Tail(@),
                                                !.failed = @ \/ ~applied]
           /\ IF applied /\ w.collection = "tierlists"
              THEN /\ TierlistsListener(SetDocMerge(tierlistDocs, w.id, w.data))
                   /\ tierEditor' = DetachFromMirror(tierEditor)
              ELSE UNCHANGED <<tierlistDocs, tierLists, cookieTiersMap, tierEditor>>
           /\ IF applied /\ w.collection = "cookies"
              THEN /\ cookieDocs' = ApplyCookieWrite(cookieDocs, w, serverTime)
                   /\ cookies' = MirrorOfCookies(ApplyCookieWrite(cookieDocs, w, serverTime))
              ELSE UNCHANGED <<cookieDocs, cookies>>
           /\ IF applied /\ w.collection = "powerups"
              THEN /\ powerUpDocs' = DeleteDoc(powerUpDocs, w.id)
                   /\ powerUps' = DeleteDoc(powerUpDocs, w.id)
              ELSE UNCHANGED <<powerUpDocs, powerUps>>
           /\ IF applied /\ w.collection = "rarities"
              THEN /\ registryDocs' = DeleteDoc(registryDocs, w.id)
                   /\ rarities' = SortByCreatedAt(DeleteDoc(registryDocs, w.id))
              ELSE UNCHANGED <<registryDocs, rarities>>
           /\ modalStack' = IF closes THEN SliceOffLast(modalStack) ELSE modalStack
           /\ cookieForm' =
                IF closes THEN FormShownBy(SliceOffLast(modalStack))
                ELSE IF applied /\ w.collection = "rarities" /\ cookieForm.mounted
                THEN [cookieForm EXCEPT !.formData =
                         FormDataFor(cookieForm.cookie,
                                     SortByCreatedAt(DeleteDoc(registryDocs, w.id)))]
                ELSE cookieForm
           /\ IF applied \/ closes
              THEN RemountTierListView /\ attrForm' = EmptyAttrForm
              ELSE UNCHANGED <<activeTab, draggedCookieId, unrankedSearch, attrForm>>
    /\ lastDrop' = NoDrop
    /\ lastAnswer' = NoAnswer
    /\ UNCHANGED <<seedTiers, clock>>
    /\ UNCHANGED <<searchTerm, sort>>
    /\ UNCHANGED <<confirmAction, serverTime>>

\* cookie documents of two cookies without power-up
PlainCookieDocs ==
    << [id |-> "c1", name |-> <<"a">>, rarity |-> "Common", createdAt |-> Timestamp(1),
        powerUpId |-> ""],
       [id |-> "c2", name |-> <<"b">>, rarity |-> "Common", createdAt |-> Timestamp(2),
        powerUpId |-> ""] >>

\* Cookies are deleted from their detail modal while another client places
\* them on the tier lists.
InitDelete ==
    /\ InitTier
    /\ InitViewIdle
    /\ InitUi
    /\ cookieDocs = PlainCookieDocs
    /\ powerUpDocs = <<>>
    /\ registryDocs = <<>>
    /\ serverTime = 3

NextDelete ==
    \/ CookiesSnapshot
    \/ \E k \in 1..MaxCookies : OpenCookieDetail(k)
    \/ EditFromDetail
    \/ CloseModal
    \/ DeleteFromCookieDetail
    \/ CancelConfirm
    \/ ConfirmPending
    \/ \E applied \in BOOLEAN : DeleteCallSettled(applied)
    \/ \E docId \in TierListDocIds :
         /\ ~deleting.running
         /\ TierlistsChangedRemotely(docId, PlacedDoc(docId))

SpecDelete == InitDelete /\ [][NextDelete]_vars

\* the delete button of the i-th rarity of AttributeManager, which no modal covers
DeleteRarityEntry(i) ==
    /\ modalStack = <<>>
    /\ i \in 1..Len(rarities)
    /\ HandleDeleteAttribute("rarities", rarities[i].id)

\* a registry of two rarities, the second one allowing a power-up
TwoRarityDocs ==
    << [id |-> "r1", name |-> "Common", allowsPowerUp |-> FALSE, createdAt |-> Timestamp(1)],
       [id |-> "r2", name |-> "Epic", allowsPowerUp |-> TRUE, createdAt |-> Timestamp(2)] >>

\* one power-up
OnePowerUpDoc == << [id |-> "p1", name |-> <<"g">>] >>

\* a cookie that has a costume and holds the power-up, and a plain cookie
CostumedCookieDocs ==
    << [id |-> "c1", name |-> <<"a">>, rarity |-> "Epic", createdAt |-> Timestamp(1),
        powerUpId |-> "p1", costumes |-> << [name |-> "k1"] >>],
       [id |-> "c2", name |-> <<"b">>, rarity |-> "Common", createdAt |-> Timestamp(2),
        powerUpId |-> ""] >>

\* Every kind of deletion the confirm dialog guards: a cookie, a power-up, a
\* costume, a rarity.
InitConfirm ==
    /\ InitTier
    /\ InitViewIdle
    /\ InitUi
    /\ cookieDocs = CostumedCookieDocs
    /\ powerUpDocs = OnePowerUpDoc
    /\ registryDocs = TwoRarityDocs
    /\ serverTime = 3

NextConfirm ==
    \/ CookiesSnapshot
    \/ PowerUpsSnapshot
    \/ RaritiesSnapshot
    \/ \E k \in 1..MaxCookies : OpenCookieDetail(k)
    \/ \E k \in 1..Len(PowerUpIdOrder) : OpenPowerUpDetail(k)
    \/ OpenCostumeDetail(1)
    \/ CloseModal
    \/ DeleteFromCookieDetail
    \/ DeleteFromPowerUpDetail
    \/ HandleDeleteCostume
    \/ \E i \in 1..Len(RarityIdOrder) : DeleteRarityEntry(i)
    \/ CancelConfirm
    \/ ConfirmPending
    \/ \E applied \in BOOLEAN : DeleteCallSettled(applied)

SpecConfirm == InitConfirm /\ [][NextConfirm]_vars

\* two cookies, neither holding a power-up
UnlinkedCookieDocs ==
    << [id |-> "c1", name |-> <<"a">>, rarity |-> "Epic", createdAt |-> Timestamp(1),
        powerUpId |-> ""],
       [id |-> "c2", name |-> <<"b">>, rarity |-> "Common", createdAt |-> Timestamp(2),
        powerUpId |-> ""] >>

\* Cookies are created and edited with the cookie form, and the power-up is
\* deleted from its detail modal.
InitForm ==
    /\ InitTier
    /\ InitViewIdle
    /\ InitUi
    /\ cookieDocs = UnlinkedCookieDocs
    /\ powerUpDocs = OnePowerUpDoc
    /\ registryDocs = TwoRarityDocs
    /\ serverTime = 3

NextForm ==
    \/ CookiesSnapshot
    \/ PowerUpsSnapshot
    \/ RaritiesSnapshot
    \/ \E k \in 1..MaxCookies : OpenCookieDetail(k)
    \/ EditFromDetail
    \/ OpenNewCookieForm
    \/ CloseModal
    \/ \E i \in 1..Len(RarityIdOrder) : HandleChangeRarity(i)
    \/ \E k \in 0..Len(PowerUpIdOrder) : HandleChangePowerUp(k)
    \/ SubmitCookieForm
    \/ CookieSaveApplied
    \/ CookieSaveFailed
    \/ \E k \in 1..Len(PowerUpIdOrder) : OpenPowerUpDetail(k)
    \/ DeleteFromPowerUpDetail
    \/ CancelConfirm
    \/ ConfirmPending
    \/ \E applied \in BOOLEAN : DeleteCallSettled(applied)

SpecForm == InitForm /\ [][NextForm]_vars

----------------------------------------------------------------------------
(* AttributeManager on the rarities tab                                     *)

\* the ids the store gives to rarities, in document order
RegistryIdOrder == <<"r1", "r2", "r3">>

\* the names typed into the name field
AttributeNames == {"", "Common", "Rare"}

\* a state change of AttributeManager leaves App as it is
AttributeFrame ==
    /\ modalStack = <<>>
    /\ ~confirmAction.pending
    /\ ~attrForm.isSaving
    /\ lastDrop' = NoDrop
    /\ lastAnswer' = NoAnswer
    /\ UNCHANGED <<tierLists, tierlistDocs, pendingWrites, cookieTiersMap, activeTab,
                   draggedCookieId, unrankedSearch>>
    /\ UNCHANGED editorVars
    /\ UNCHANGED viewVars
    /\ UNCHANGED <<modalStack, confirmAction, deleting, cookieDocs, powerUpDocs, powerUps,
                   registryDocs, cookieForm, serverTime>>

\* handleEdit(attr) on the i-th entry of the list
HandleEditAttribute(i) ==
    /\ i \in 1..Len(rarities)
    /\ attrForm' = [name |-> rarities[i].name, allowsPowerUp |-> rarities[i].allowsPowerUp,
                    editingId |-> rarities[i].id, isSaving |-> FALSE]
    /\ AttributeFrame

\* the name field: setFormData({...formData, name})
SetAttributeName(name) ==
    /\ attrForm' = [attrForm EXCEPT !.name = name]
    /\ AttributeFrame

\* the checkbox of the rarities tab: setFormData({...formData, allowsPowerUp})
ToggleAllowsPowerUp ==
    /\ attrForm' = [attrForm EXCEPT !.allowsPowerUp = ~@]
    /\ AttributeFrame

\* handleCancel
HandleCancelAttribute ==
    /\ attrForm.editingId # Null
    /\ attrForm' = EmptyAttrForm
    /\ AttributeFrame

\* serverTimestamp(): a sentinel the store replaces by the time of the write
ServerTimestamp == [kind |-> "serverTimestamp", t |-> 0]

\* handleSubmit: dataToSave = { name, imageUrl, createdAt: serverTimestamp() },
\* and allowsPowerUp on the rarities tab; onSave(activeTab, dataToSave, editingId)
AttributeWrite(form) ==
    [collection |-> "rarities", op |-> IF form.editingId = Null THEN "add" ELSE "set",
     id |-> form.editingId,
     data |-> [name |-> form.name, allowsPowerUp |-> form.allowsPowerUp,
               createdAt |-> ServerTimestamp],
     then |-> "attribute"]

\* handleSubmit: if (formData.name) { setIsSaving(true); await onSave(...) }
SubmitAttribute ==
    /\ attrForm.name # ""
    /\ Len(pendingWrites) < MaxPending
    /\ attrForm.editingId = Null =>
         \E i \in 1..Len(RegistryIdOrder) : ~HasDoc(registryDocs, RegistryIdOrder[i])
    /\ modalStack = <<>>
    /\ ~confirmAction.pending
    /\ ~attrForm.isSaving
    /\ pendingWrites' = Append(pendingWrites, AttributeWrite(attrForm))
    /\ attrForm' = [attrForm EXCEPT !.isSaving = TRUE]
    /\ lastDrop' = NoDrop
    /\ lastAnswer' = NoAnswer
    /\ UNCHANGED <<tierLists, tierlistDocs, cookieTiersMap, activeTab, draggedCookieId,
                   unrankedSearch>>
    /\ UNCHANGED editorVars
    /\ UNCHANGED viewVars
    /\ UNCHANGED <<modalStack, confirmAction, deleting, cookieDocs, powerUpDocs, powerUps,
                   registryDocs, cookieForm, serverTime>>

\* the rarities collection after the write of handleSaveAttribute: addDoc, or
\* setDoc with merge, with data that name every field of the document; the
\* serverTimestamp() in the data becomes the time of the write
ApplyAttributeWrite(docs, w, now) ==
    LET id == IF w.op = "add" THEN NewId(docs, RegistryIdOrder) ELSE w.id
        createdAt == IF w.data.createdAt = ServerTimestamp THEN Timestamp(now)
                     ELSE w.data.createdAt
    IN  SetDoc(docs, RegistryIdOrder, id,
               [id |-> id, name |-> w.data.name, allowsPowerUp |-> w.data.allowsPowerUp,
                createdAt |-> createdAt])

\* the store applies the write of handleSaveAttribute and the attributes
\* listener runs: App renders and AttributeManager is mounted anew
AttributeSaveApplied ==
    /\ pendingWrites # <<>>
    /\ Head(pendingWrites).collection = "rarities"
    /\ Head(pendingWrites).then = "attribute"
    /\ serverTime < MaxServerTime
    /\ LET docs == ApplyAttributeWrite(registryDocs, Head(pendingWrites), serverTime)
       IN  /\ registryDocs' = docs
           /\ rarities' = SortByCreatedAt(docs)
    /\ serverTime' = serverTime + 1
    /\ pendingWrites' = Tail(pendingWrites)
    /\ attrForm' = EmptyAttrForm
    /\ RemountTierListView
    /\ lastDrop' = NoDrop
    /\ lastAnswer' = NoAnswer
    /\ UNCHANGED <<tierLists, tierlistDocs, cookieTiersMap>>
    /\ UNCHANGED editorVars
    /\ UNCHANGED <<cookies, searchTerm, sort>>
    /\ UNCHANGED <<modalStack, confirmAction, deleting, cookieDocs, powerUpDocs, powerUps,
                   cookieForm>>

\* the write is rejected: saveData returns null and handleSubmit resets the form
AttributeSaveFailed ==
    /\ pendingWrites # <<>>
    /\ Head(pendingWrites).collection = "rarities"
    /\ Head(pendingWrites).then = "attribute"
    /\ pendingWrites' = Tail(pendingWrites)
    /\ attrForm' = EmptyAttrForm
    /\ lastDrop' = NoDrop
    /\ lastAnswer' = NoAnswer
    /\ UNCHANGED <<tierLists, tierlistDocs, cookieTiersMap, activeTab, draggedCookieId,
                   unrankedSearch>>
    /\ UNCHANGED editorVars
    /\ UNCHANGED viewVars
    /\ UNCHANGED <<modalStack, confirmAction, deleting, cookieDocs, powerUpDocs, powerUps,
                   registryDocs, cookieForm, serverTime>>

\* Rarities are added and edited in AttributeManager.
InitAttributes ==
    /\ InitTier
    /\ InitViewIdle
    /\ InitUi
    /\ cookieDocs = UnlinkedCookieDocs
    /\ powerUpDocs = <<>>
    /\ registryDocs = TwoRarityDocs
    /\ serverTime = 3

NextAttributes ==
    \/ CookiesSnapshot
    \/ RaritiesSnapshot
    \/ \E i \in 1..Len(RegistryIdOrder) : HandleEditAttribute(i)
    \/ \E name \in AttributeNames : SetAttributeName(name)
    \/ ToggleAllowsPowerUp
    \/ HandleCancelAttribute
    \/ SubmitAttribute
    \/ AttributeSaveApplied
    \/ AttributeSaveFailed

SpecAttributes == InitAttributes /\ [][NextAttributes]_vars

----------------------------------------------------------------------------
(* Properties of the tier editor and of the seed tiers                      *)

\* four tiers with ids and names S, A, B, C in this order, without cookie ids
SeedShape(tiers) ==
    /\ Len(tiers) = 4
    /\ \A i \in 1..4 :
         /\ tiers[i].id = <<"S", "A", "B", "C">>[i]
         /\ tiers[i].name = <<"S", "A", "B", "C">>[i]
         /\ tiers[i].cookieIds = <<>>

\* C12: after every snapshot of the tierlists collection, a list whose document
\* is missing or has a tiers field that is no array has the four seed tiers
\* S, A, B, C, in this order, each without cookie ids, as its mirror.
C12_SnapshotSeedsDefaults ==
    [][tierlistDocs' # tierlistDocs =>
        \A k \in ListKinds :
            UsesDefaultTiers(tierlistDocs', DocIdOf(k)) => SeedShape(tierLists'[k].tiers)]_vars

\* the step removes one tier in the editor
IsRemoveStep ==
    /\ tierEditor.open
    /\ tierEditor'.open
    /\ Len(tierEditor'.tiers) = Len(tierEditor.tiers) - 1

\* the step is the editor's save
IsEditorSaveStep ==
    /\ tierEditor.open
    /\ tierEditor'.open
    /\ ~tierEditor.isSaving
    /\ tierEditor'.isSaving

\* the step applies a write that an editor has issued
IsEditorWriteApplied ==
    /\ pendingWrites # <<>>
    /\ pendingWrites' = Tail(pendingWrites)
    /\ Head(pendingWrites).then = "closeModal"
    /\ tierlistDocs' # tierlistDocs

\* the cookie ids of a tier
CookiesOf(tier) == {tier.cookieIds[j] : j \in 1..Len(tier.cookieIds)}

\* C16: removing the tier at a position leaves the other tiers as they were, in
\* their order, and the cookie ids of the removed tier in no tier; the save
\* writes the editor's tiers, and the applied write makes them the document's
\* and the mirror's tiers.
C16_RemoveTierFrame ==
    [][/\ IsRemoveStep =>
            \E index \in 1..Len(tierEditor.tiers) :
                /\ \A i \in 1..Len(tierEditor'.tiers) :
                     tierEditor'.tiers[i].tier
                       = tierEditor.tiers[IF i < index THEN i ELSE i + 1].tier
                /\ \A c \in CookiesOf(tierEditor.tiers[index].tier) :
                     \A i \in 1..Len(tierEditor'.tiers) :
                        c \notin CookiesOf(tierEditor'.tiers[i].tier)
       /\ IsEditorSaveStep =>
            LET w == pendingWrites'[Len(pendingWrites')]
            IN  /\ Len(pendingWrites') = Len(pendingWrites) + 1
                /\ w.id = tierEditor.tierList.id
                /\ w.data.tiers = TierValues(tierEditor.tiers)
       /\ IsEditorWriteApplied =>
            LET w == Head(pendingWrites)
            IN  /\ tierlistDocs'[w.id].tiers = w.data.tiers
                /\ tierLists'[KindOf(w.id)].tiers = w.data.tiers]_vars

\* tier B, which held c2, was removed and the list saved: the document and
\* the mirror hold S with c1, A and C, and c2 is in no tier
C16_Witness ==
    /\ ~tierEditor.open
    /\ tierlistDocs["pvp-tier-list"].exists
    /\ tierlistDocs["pvp-tier-list"].tiersIsArray
    /\ tierlistDocs["pvp-tier-list"].tiers
         = <<PlacedDoc("pvp-tier-list").tiers[1], PlacedDoc("pvp-tier-list").tiers[2],
             PlacedDoc("pvp-tier-list").tiers[4]>>
    /\ tierLists.pvp.tiers = tierlistDocs["pvp-tier-list"].tiers
    /\ \A i \in 1..Len(tierLists.pvp.tiers) : ~InTier(tierLists.pvp.tiers, i, "c2")

\* C17: an operation on one list (an edit in its editor, a move, an applied
\* write to its document) leaves the tiers of the other list's mirror as they
\* were.
C17_OtherListUnchanged ==
    [][\A k \in ListKinds :
        (\/ /\ tierEditor.open
            /\ tierEditor'.open
            /\ TierValues(tierEditor'.tiers) # TierValues(tierEditor.tiers)
            /\ KindOf(tierEditor.tierList.id) # k
         \/ /\ lastDrop'.acted
            /\ lastDrop'.tab # k
         \/ /\ pendingWrites # <<>>
            /\ pendingWrites' = Tail(pendingWrites)
            /\ tierlistDocs' # tierlistDocs
            /\ Head(pendingWrites).id # DocIdOf(k))
        => tierLists'[k].tiers = tierLists[k].tiers]_vars

\* the step sets a field of a tier in the editor
IsChangeStep ==
    /\ tierEditor.open
    /\ tierEditor'.open
    /\ Len(tierEditor'.tiers) = Len(tierEditor.tiers)
    /\ TierValues(tierEditor'.tiers) # TierValues(tierEditor.tiers)

\* C18: a rename or recolor in the editor replaces the name, or the color, of
\* the tier at one position; the other fields of that tier and all other
\* tiers stay as they were.
C18_FieldReplacement ==
    [][IsChangeStep =>
        \E index \in 1..Len(tierEditor.tiers) : \E field \in {"name", "color"} :
            /\ \A i \in 1..Len(tierEditor.tiers) :
                 i # index => tierEditor'.tiers[i].tier = tierEditor.tiers[i].tier
            /\ \A f \in {"id", "name", "color", "cookieIds"} \ {field} :
                 tierEditor'.tiers[index].tier[f] = tierEditor.tiers[index].tier[f]]_vars

\* tier S, which holds c1, has been given the name and the color of tier A
C18_Witness ==
    /\ tierEditor.open
    /\ Len(tierEditor.tiers) = 4
    /\ tierEditor.tiers[1].tier.id = "S"
    /\ tierEditor.tiers[1].tier.cookieIds = <<"c1">>
    /\ tierEditor.tiers[2].tier.id = "A"
    /\ tierEditor.tiers[1].tier.name = tierEditor.tiers[2].tier.name
    /\ tierEditor.tiers[1].tier.color = tierEditor.tiers[2].tier.color

\* C19: the tier ids of the edited list are pairwise distinct, and every added
\* tier is without cookie ids and stands behind the tiers the list had.
C19_AddedTierIdsDistinct ==
    tierEditor.open =>
        /\ \A i, j \in 1..Len(tierEditor.tiers) :
             i # j => tierEditor.tiers[i].tier.id # tierEditor.tiers[j].tier.id
        /\ \A i, j \in 1..Len(tierEditor.tiers) :
             (tierEditor.tiers[i].src = "own" /\ tierEditor.tiers[j].src # "own") => j < i
        /\ \A i \in 1..Len(tierEditor.tiers) :
             tierEditor.tiers[i].src = "own" => tierEditor.tiers[i].tier.cookieIds = <<>>

\* the step settles the oldest write
IsWriteSettled ==
    /\ pendingWrites # <<>>
    /\ pendingWrites' = Tail(pendingWrites)

\* C22: the mirror of the tier lists changes only in a step in which a snapshot
\* arrives (a document changed, or a write was settled) and is then the
\* content of the snapshot; a step that leaves the documents as they were,
\* such as a write that fails, leaves the mirror as it was.
C22_MirrorChangesOnlyBySnapshot ==
    [][/\ tierLists' # tierLists =>
            /\ tierlistDocs' # tierlistDocs \/ IsWriteSettled
            /\ tierLists' = OnTierlistsSnapshot(tierlistDocs', defaultTiers)
       /\ tierlistDocs' = tierlistDocs => tierLists' = tierLists]_vars

\* C23: while no editor is open and no editor has saved, the seed tiers are
\* the four tiers S, A, B, C as they were defined, the mirror of both lists
\* is what the last snapshot of the documents gives with them, and no write
\* has been issued.
C23_CloseWithoutSaveRestores ==
    ~tierEditor.open =>
        /\ seedTiers = defaultTiers
        /\ tierLists = OnTierlistsSnapshot(tierlistDocs, defaultTiers)
        /\ pendingWrites = <<>>

\* C24: the save of the editor carries, for every tier of the persisted list
\* that the editor still has, the cookie ids the persisted tier has at the
\* time of the save.
C24_SaveKeepsSnapshotPlacements ==
    [][(IsEditorSaveStep /\ tierlistDocs[tierEditor.tierList.id].exists
                         /\ tierlistDocs[tierEditor.tierList.id].tiersIsArray) =>
        LET persisted == tierlistDocs[tierEditor.tierList.id].tiers
            saved == pendingWrites'[Len(pendingWrites')].data.tiers
        IN  \A i \in 1..Len(persisted) : \A j \in 1..Len(saved) :
                saved[j].id = persisted[i].id
                    => CookiesOf(persisted[i]) \subseteq CookiesOf(saved[j])]_vars

----------------------------------------------------------------------------
(* Properties of the derived view pipeline                                  *)

Reverse(seq) == [i \in 1..Len(seq) |-> seq[Len(seq) + 1 - i]]

RarityAscending == sort.option = "rarity" /\ sort.direction = "asc"

\* the rarity name is the name of an entry of the registry
InRegistry(rarity) == \E p \in 1..Len(rarities) : rarities[p].name = rarity

\* rarity x stands before rarity y in the registry
BeforeInRegistry(x, y) ==
    \E p, q \in 1..Len(rarities) :
        p < q /\ rarities[p].name = x /\ rarities[q].name = y

\* C6: under option=rarity, direction=asc a cookie whose rarity the registry
\* does not hold stands after every cookie whose rarity it holds.
C6_UnknownRarityLast ==
    RarityAscending =>
        LET sorted == sortedCookies
        IN  \A i, j \in 1..Len(sorted) :
                (/\ ~InRegistry(sorted[i].rarity)
                 /\ InRegistry(sorted[j].rarity)) => j < i

\* C7: under option=rarity, direction=asc, when rarity X stands before rarity
\* Y in the registry, every cookie of rarity X stands before every cookie of
\* rarity Y.
C7_RarityRankMonotone ==
    RarityAscending =>
        LET sorted == sortedCookies
        IN  \A i, j \in 1..Len(sorted) :
                (/\ sorted[i].rarity # sorted[j].rarity
                 /\ BeforeInRegistry(sorted[i].rarity, sorted[j].rarity))
                => i < j

\* the collection holds a cookie of the second rarity before a cookie of the
\* first rarity, and the sort has exchanged them
C7_Witness ==
    /\ RarityAscending
    /\ Len(rarities) = 2
    /\ rarities[1].name # rarities[2].name
    /\ \E i, j \in 1..Len(filteredCookies) :
         /\ i < j
         /\ filteredCookies[i].rarity = rarities[2].name
         /\ filteredCookies[j].rarity = rarities[1].name
    /\ Len(sortedCookies) = 3
    /\ sortedCookies[1].rarity = rarities[1].name
    /\ sortedCookies[3].rarity = rarities[2].name

\* no two cookies of the list tie under the option's compare function
NoTies(list, option) ==
    \A i, j \in 1..Len(list) :
        i < j =>
            IF option = "rarity"
            THEN ~(/\ RarityRank(RarityOrder(rarities), list[i].rarity)
                        = RarityRank(RarityOrder(rarities), list[j].rarity)
                   /\ TimeOf(list[i]) = TimeOf(list[j]))
            ELSE list[i].name # list[j].name

\* C8: for both sort options, on a list without ties the sequence sorted with
\* direction=desc is the reverse of the sequence sorted with direction=asc.
C8_DescReversesAsc ==
    \A option \in SortOptions :
        NoTies(filteredCookies, option) =>
            SortCookies(filteredCookies, [option |-> option, direction |-> "desc"],
                        RarityOrder(rarities))
            = Reverse(SortCookies(filteredCookies, [option |-> option, direction |-> "asc"],
                                  RarityOrder(rarities)))

\* three cookies without ties under either option are shown in descending
\* order, which is not the order of the collection
C8_Witness ==
    /\ sort.direction = "desc"
    /\ Len(filteredCookies) = 3
    /\ \A option \in SortOptions : NoTies(filteredCookies, option)
    /\ sortedCookies # filteredCookies
    /\ sortedCookies # Reverse(filteredCookies)

\* two characters are the same letter, whatever their case
SameLetter(x, y) ==
    \/ x = y
    \/ {x, y} \in {{"a", "A"}, {"b", "B"}, {"g", "G"}}

\* the name contains the term, cases ignored
ContainsIgnoringCase(name, term) ==
    \E k \in 0..Len(name) :
        /\ k + Len(term) <= Len(name)
        /\ \A j \in 1..Len(term) : SameLetter(name[k + j], term[j])

\* C9: the filter keeps exactly the cookies whose name contains the search
\* term, cases ignored, in the order of the input; the empty term keeps all.
C9_FilterBySubstring ==
    LET kept == {i \in 1..Len(cookies) : ContainsIgnoringCase(cookies[i].name, searchTerm)}
        filtered == filteredCookies
    IN  /\ Len(filtered) = Cardinality(kept)
        /\ \A i \in kept :
             filtered[Cardinality({j \in kept : j <= i})] = cookies[i]
        /\ searchTerm = <<>> => filtered = cookies

\* the term "aB" keeps "Ab" and "baB" and drops "a"
C9_Witness ==
    /\ searchTerm = <<"a", "B">>
    /\ Len(cookies) = 3
    /\ cookies[1].name = <<"a">>
    /\ cookies[2].name = <<"b", "a", "B">>
    /\ cookies[3].name = <<"A", "b">>
    /\ Len(filteredCookies) = 2
    /\ filteredCookies[1] = cookies[2]
    /\ filteredCookies[2] = cookies[3]

\* the groups, keyed by key(cookie), partition the sorted cookies in order
GroupsPartitionBy(key(_)) ==
    LET sorted == sortedCookies
        grouped == GroupCookies(sorted)
    IN  /\ \A g, h \in 1..Len(grouped) :
             grouped[g].rarity = grouped[h].rarity => g = h
        /\ \A g \in 1..Len(grouped) :
             grouped[g].items
               = SelectSeq(sorted, LAMBDA c : key(c) = grouped[g].rarity)
        /\ \A i \in 1..Len(sorted) :
             \E g \in 1..Len(grouped) : grouped[g].rarity = key(sorted[i])

RarityField(cookie) == cookie.rarity

RarityOrCommon(cookie) == IF cookie.rarity = "" THEN "Common" ELSE cookie.rarity

\* C10 as stated: each group holds exactly the sorted cookies whose rarity
\* field is the group's name, in the order of the sorted sequence, and every
\* sorted cookie is in exactly one group.
C10_GroupsByRarityField == GroupsPartitionBy(RarityField)

\* C10 as amended: each group holds exactly the sorted cookies whose rarity
\* field is the group's name, a cookie with an empty rarity counting as
\* "Common", in the order of the sorted sequence, and every sorted cookie is
\* in exactly one group.
C10_GroupsByRarityOrCommon == GroupsPartitionBy(RarityOrCommon)

\* a cookie without rarity stands between a Common and a Rare cookie and is
\* grouped with the Common one
C10_Witness ==
    /\ Len(sortedCookies) = 3
    /\ sortedCookies[1].rarity = "Common"
    /\ sortedCookies[2].rarity = "Rare"
    /\ sortedCookies[3].rarity = ""
    /\ Len(groupedCookies) = 2
    /\ groupedCookies[1].rarity = "Common"
    /\ groupedCookies[1].items = <<sortedCookies[1], sortedCookies[3]>>

\* the place in the sorted sequence of the first cookie that counts as rarity r
FirstAppearance(sorted, r) ==
    CHOOSE i \in 1..Len(sorted) :
        /\ RarityOrCommon(sorted[i]) = r
        /\ \A j \in 1..(i - 1) : RarityOrCommon(sorted[j]) # r

\* C11: under option=rarity the rarity sections are rendered in the order in
\* which their rarity first appears in the sorted sequence, in both directions.
C11_SectionsInFirstAppearanceOrder ==
    sort.option = "rarity" =>
        LET sorted == sortedCookies
            sections == RenderedSections(GroupCookies(sorted))
        IN  \A g, h \in 1..Len(sections) :
                g < h => FirstAppearance(sorted, sections[g].rarity)
                           < FirstAppearance(sorted, sections[h].rarity)

\* the cookie documents of the store: the mirror, but for the placeholder
\* cookie that stands in while the store holds no cookie
StoredCookies == IF cookies = <<defaultCookie>> THEN <<>> ELSE cookies

\* the ids of the cookies of a sequence
IdsOf(list) == {list[i].id : i \in 1..Len(list)}

\* the cookies of list that are in no tier of the active list and whose name
\* contains the unranked search term, whatever the case of the letters
UnrankedOf(list) ==
    {list[i].id : i \in {k \in 1..Len(list) :
        /\ \A t \in 1..Len(tierLists[activeTab].tiers) :
             ~InTier(tierLists[activeTab].tiers, t, list[k].id)
        /\ ContainsIgnoringCase(list[k].name, unrankedSearch)}}

\* the unranked cookies stand in the order of their rarity ranks; two of
\* different rank stand as the main rarity sort, ascending, places them
OrderedByRarityRank(unranked) ==
    LET rarityOrder == RarityOrder(rarities)
        main == SortCookies(unranked, [option |-> "rarity", direction |-> "asc"], rarityOrder)
        place(c) == CHOOSE p \in 1..Len(main) : main[p].id = c.id
    IN  \A i, j \in 1..Len(unranked) :
            i < j =>
                /\ RarityComparison(unranked[i], unranked[j], rarityOrder) <= 0
                /\ RarityComparison(unranked[i], unranked[j], rarityOrder) # 0
                     => place(unranked[i]) < place(unranked[j])

\* with an empty search term each cookie of list is in exactly one tier of
\* the active list or among the unranked cookies, and not both
PartitionedByTiers(list, unranked) ==
    unrankedSearch = <<>> =>
        \A k \in 1..Len(list) :
            LET holding == {t \in 1..Len(tierLists[activeTab].tiers) :
                              InTier(tierLists[activeTab].tiers, t, list[k].id)}
            IN  IF list[k].id \in IdsOf(unranked)
                THEN holding = {}
                ELSE Cardinality(holding) = 1

----------------------------------------------------------------------------
(* Properties of deletion, the confirm dialog and the modal stack           *)

\* the cookie id is in some tier of the list
RankedIn(list, cookieId) == \E i \in 1..Len(list.tiers) : InTier(list.tiers, i, cookieId)

\* the deleteDoc of a cookie is applied in this step, every call before it
\* of the running action having been applied
IsCookieDeleted ==
    /\ deleting.running
    /\ deleting.collectionName = "cookies"
    /\ ~deleting.failed
    /\ ~deleting'.running
    /\ HasDoc(cookieDocs, deleting.id)
    /\ ~HasDoc(cookieDocs', deleting.id)

\* a tier-list write of a running deletion is issued in this step
IssuedTierWriteOfDelete ==
    /\ pendingWrites' # <<>>
    /\ pendingWrites' # pendingWrites
    /\ pendingWrites'[Len(pendingWrites')].collection = "tierlists"
    /\ pendingWrites'[Len(pendingWrites')].then = "delete"

\* C21: when the document of a cookie is deleted by a confirmed deletion whose
\* writes were all applied, the cookie's id is in no tier of the PvP list and
\* of the PvE list, in the store and in the mirror; a tier-list write of the
\* deletion is issued while the deleteDoc of the cookie is still to be called,
\* and only for a list that held the cookie.
C21_DeletedCookieLeavesTiers ==
    [][/\ IsCookieDeleted =>
            /\ \A k \in ListKinds : ~RankedIn(tierLists'[k], deleting.id)
            /\ \A d \in TierListDocIds :
                 (tierlistDocs'[d].exists /\ tierlistDocs'[d].tiersIsArray)
                     => ~RankedIn(tierlistDocs'[d], deleting.id)
       /\ IssuedTierWriteOfDelete =>
            LET w == pendingWrites'[Len(pendingWrites')]
            IN  /\ deleting'.running
                /\ deleting'.calls # <<>>
                /\ deleting'.calls[Len(deleting'.calls)].collection = "cookies"
                /\ deleting'.calls[Len(deleting'.calls)].op = "delete"
                /\ \E k \in ListKinds :
                     /\ DocIdOf(k) = w.id
                     /\ RankedIn(tierLists[k], deleting'.id)
                     /\ ~RankedIn(w.data, deleting'.id)]_vars

\* a call of a deletion is issued in this step
IssuedDeleteCall ==
    /\ pendingWrites' # <<>>
    /\ pendingWrites' # pendingWrites
    /\ pendingWrites'[Len(pendingWrites')].then = "delete"

\* the Cancel button of the confirm dialog is pressed in this step
IsCancelStep == confirmAction.pending /\ lastAnswer'.answer = "cancel"

\* the Confirm button of the confirm dialog is pressed in this step, for the
\* pending action
IsConfirmStep ==
    /\ confirmAction.pending
    /\ lastAnswer' = [answer |-> "confirm", collectionName |-> confirmAction.collectionName,
                      id |-> confirmAction.id]

\* C29: a call of a deletion (the deleteDoc or a write that goes with it) is
\* issued only in the step that confirms the pending action, or by the action
\* that a confirmation started, and for the collection and id that were
\* confirmed; a cancel issues no write, leaves the store as it is and clears
\* the pending action, and no action runs unless a confirmation started it.
C29_NoDeleteBeforeConfirm ==
    [][/\ IssuedDeleteCall =>
            /\ IsConfirmStep \/ deleting.running
            /\ deleting'.running
            /\ IsConfirmStep =>
                 /\ deleting'.collectionName = confirmAction.collectionName
                 /\ deleting'.id = confirmAction.id
                 /\ DeleteCalls(confirmAction) # <<>>
                 /\ pendingWrites'[Len(pendingWrites')] = Head(DeleteCalls(confirmAction))
       /\ IsCancelStep =>
            /\ pendingWrites' = pendingWrites
            /\ UNCHANGED <<cookieDocs, powerUpDocs, registryDocs, tierlistDocs>>
            /\ confirmAction' = NoConfirm
            /\ deleting' = deleting
       /\ (~deleting.running /\ deleting'.running) => IsConfirmStep
       /\ <<cookieDocs, powerUpDocs, registryDocs, tierlistDocs>>'
              # <<cookieDocs, powerUpDocs, registryDocs, tierlistDocs>> =>
            (pendingWrites # <<>> /\ deleting.running)
       /\ (~confirmAction.pending /\ confirmAction'.pending) => ~deleting.running]_vars

\* the deletion of a costume was asked for from its detail modal and
\* cancelled, after a rarity was deleted with confirmation: the modal is still
\* shown, nothing is being written and the cookie still has its costume
C29_Witness ==
    /\ lastAnswer.answer = "cancel"
    /\ lastAnswer.collectionName = "costumes"
    /\ ~confirmAction.pending
    /\ currentModal.type = "costumeDetail"
    /\ pendingWrites = <<>>
    /\ Len(registryDocs) < Len(TwoRarityDocs)
    /\ cookieDocs = CostumedCookieDocs

\* the stack is the other one with one entry pushed on top
IsPushOf(stack, pushed) ==
    /\ Len(pushed) = Len(stack) + 1
    /\ SubSeq(pushed, 1, Len(stack)) = stack

\* the stack is the other one without its top entry
IsPopOf(stack, popped) ==
    /\ stack # <<>>
    /\ Len(popped) = Len(stack) - 1
    /\ \A i \in 1..Len(popped) : popped[i] = stack[i]

\* C30: every step that changes the modal stack pushes one entry on top of it
\* or removes its top entry; closeModal leaves an empty stack empty and undoes
\* an openModal; the modal shown is the top entry, and none is shown exactly
\* when the stack is empty.
C30_ModalStackDiscipline ==
    [][/\ modalStack' # modalStack =>
            IsPushOf(modalStack, modalStack') \/ IsPopOf(modalStack, modalStack')
       /\ SliceOffLast(<<>>) = <<>>
       /\ modalStack # <<>> => IsPopOf(modalStack, SliceOffLast(modalStack))
       /\ IsPushOf(modalStack, PushModal(modalStack, "form", NoData))
       /\ SliceOffLast(PushModal(modalStack, "form", NoData)) = modalStack
       /\ modalStack' # <<>> => currentModal' = modalStack'[Len(modalStack')]
       /\ (currentModal'.type = Null) <=> (modalStack' = <<>>)]_vars

\* the cookie form is shown on top of the detail modal it was opened from
C30_Witness ==
    /\ Len(modalStack) = 2
    /\ modalStack[1].type = "detail"
    /\ currentModal.type = "form"
    /\ currentModal = modalStack[2]

----------------------------------------------------------------------------
(* Properties of the cookie form and of power-up references                 *)

\* the stored cookies that reference the power-up
CookiesHolding(docs, powerUpId) ==
    {i \in 1..Len(docs) : PowerUpIdOf(docs[i]) = powerUpId}

\* C25: in every state reached by creating and editing cookies with the form,
\* at most one stored cookie references a given power-up id.
C25_OneCookiePerPowerUp ==
    \A k \in 1..Len(PowerUpIdOrder) :
        Cardinality(CookiesHolding(cookieDocs, PowerUpIdOrder[k])) <= 1

\* the deleteDoc of a power-up is applied in this step, every call before it
\* of the running action having been applied
IsPowerUpDeleted ==
    /\ deleting.running
    /\ deleting.collectionName = "powerups"
    /\ ~deleting.failed
    /\ ~deleting'.running
    /\ HasDoc(powerUpDocs, deleting.id)
    /\ ~HasDoc(powerUpDocs', deleting.id)

\* C26: when the document of a power-up is deleted by a confirmed deletion
\* whose writes were all applied, no stored cookie references the deleted
\* power-up, however many cookies referenced it before.
C26_DeletedPowerUpIsUnlinked ==
    [][IsPowerUpDeleted => CookiesHolding(cookieDocs', deleting.id) = {}]_vars

\* the cookie form is submitted in this step
IsFormSubmitted ==
    /\ cookieForm.mounted
    /\ ~cookieForm.isSaving
    /\ cookieForm'.mounted
    /\ cookieForm'.isSaving
    /\ Len(pendingWrites') = Len(pendingWrites) + 1

\* C27: whatever was chosen in the cookie form before it is submitted, the
\* cookie that is sent to the store has a non-empty powerUpId only if the
\* rarity it is sent with is one of the registry with allowsPowerUp set.
C27_PowerUpOnlyWithAllowingRarity ==
    [][IsFormSubmitted =>
        LET saved == pendingWrites'[Len(pendingWrites')].data
        IN  saved.powerUpId # "" =>
                canHavePowerUp(SortByCreatedAt(registryDocs), saved.rarity)]_vars

----------------------------------------------------------------------------
(* Properties of AttributeManager                                           *)

\* the ids of the entries of a list, in the order of the list
IdOrderOf(list) == [i \in 1..Len(list) |-> list[i].id]

\* the write of an edited rarity is applied in this step and the listener
\* sets the list, which showed the stored rarities before
IsRarityEditApplied ==
    /\ pendingWrites # <<>>
    /\ Head(pendingWrites).collection = "rarities"
    /\ Head(pendingWrites).then = "attribute"
    /\ Head(pendingWrites).op = "set"
    /\ HasDoc(registryDocs, Head(pendingWrites).id)
    /\ rarities = SortByCreatedAt(registryDocs)
    /\ registryDocs' # registryDocs

\* C28: when the edit of a rarity is applied and the snapshot sets the list,
\* every rarity stands at the position of the list it had before the edit.
C28_EditKeepsPosition ==
    [][IsRarityEditApplied => IdOrderOf(rarities') = IdOrderOf(rarities)]_vars

====
